---- MODULE Spec2Model ----
(***************************************************************************)
(* Model of the hubl-ls language server core: the document analysis        *)
(* driver (packages/server/src/server.ts), scope resolution                 *)
(* (packages/server/src/symbols.ts) and typedef expansion                   *)
(* (packages/server/src/docFormatting.ts, hover.ts).                        *)
(***************************************************************************)
EXTENDS Integers, Sequences, FiniteSets, TLC

(***************************************************************************)
(* Bounds                                                                  *)
(***************************************************************************)
\* number of didOpen/didChangeContent notifications taken in one behaviour
MaxEdits == 2
\* number of analyzeDocument invocations (top-level and recursive) in one behaviour
MaxAnalyses == 7
\* number of statements of the document whose symbols are looked up
MaxNodes == 3
\* number of @typedef comments of the document whose types are expanded
MaxTypes == 7
\* number of lines one expansion may emit
MaxLines == 16
\* number of nested resolveTypeReference calls the call stack can hold
MaxCalls == 4
\* number of @param and @property tags of a macro's documentation comment
MaxTags == 3
\* number of tokens of the tag that is parsed
MaxTokens == 7
\* number of characters of the text that is tokenized
MaxChars == 6

(***************************************************************************)
(* Documents, URIs and the file system collaborator                        *)
(***************************************************************************)
NoURI == "none"
NoText == 0

\* base locations: the directory "d" that holds the edited documents and one
\* workspace root "r"
Paths == {"a", "b"}
URIs == {"d/a", "d/b", "r/a", "r/b"}
OpenURIs == {"d/a", "d/b"}

Dir(uri) == IF uri \in {"d/a", "d/b"} THEN "d" ELSE "r"

joinPath(base, value) ==
    IF base = "d" THEN (IF value = "a" THEN "d/a" ELSE "d/b")
    ELSE IF base = "u" THEN (IF value = "a" THEN "u/a" ELSE "u/b")
    ELSE IF base = "p" THEN (IF value = "a" THEN "p/a" ELSE "p/b")
    ELSE (IF value = "a" THEN "r/a" ELSE "r/b")

ImportURIs == << >>
ImportPaths == << >>
RootURIs == << "r" >>

\* configuration.importURIs and configuration.importPaths as the client sent them
Configuration(importURIs, importPaths) == [importURIs |-> importURIs, importPaths |-> importPaths]

getURIsOf_RootsFirst(configuration, currentUri) ==
    RootURIs \o << Dir(currentUri) >> \o configuration.importURIs \o configuration.importPaths

\* symbols.ts 717-722
getURIsOf(configuration, currentUri) ==
    << Dir(currentUri) >> \o configuration.importURIs \o configuration.importPaths \o RootURIs

getURIs(currentUri) == getURIsOf(Configuration(ImportURIs, ImportPaths), currentUri)

\* An import statement: type, whether its source is a string literal, and the
\* `value` of the source node (the string of a literal, the name of an identifier).
Imp(t, lit, v) == [type |-> t, literal |-> lit, value |-> v]

\* The texts of the model, by text id.  program = FALSE: tokenize/parse throws
\* (stray block closer) and getDocumentAST returns {}.  blocks: the names of
\* the blocks at the top level of the text; use: how many of the import
\* statements start before them; typedefs: the names its @typedef comments
\* declare; macros: the names of the macros at its top level.
TextTable == <<
    [program |-> TRUE,  imports |-> << >>, blocks |-> {}, use |-> 0, typedefs |-> {}, macros |-> {}],
    [program |-> FALSE, imports |-> << >>, blocks |-> {}, use |-> 0, typedefs |-> {}, macros |-> {}],
    [program |-> TRUE,  imports |-> << Imp("Include", TRUE, "a") >>, blocks |-> {}, use |-> 1, typedefs |-> {}, macros |-> {}],
    [program |-> TRUE,  imports |-> << Imp("Include", TRUE, "b") >>, blocks |-> {}, use |-> 1, typedefs |-> {}, macros |-> {}],
    [program |-> TRUE,  imports |-> << Imp("Include", FALSE, "a") >>, blocks |-> {}, use |-> 1, typedefs |-> {}, macros |-> {}],
    [program |-> TRUE,  imports |-> << Imp("Include", FALSE, "a"), Imp("Include", TRUE, "b") >>,
     blocks |-> {}, use |-> 2, typedefs |-> {}, macros |-> {}],
    [program |-> TRUE,  imports |-> << Imp("Include", TRUE, "a"), Imp("Include", TRUE, "b") >>,
     blocks |-> {}, use |-> 2, typedefs |-> {}, macros |-> {}],
    [program |-> TRUE,  imports |-> << Imp("Extends", TRUE, "b") >>, blocks |-> {"x"}, use |-> 1, typedefs |-> {}, macros |-> {}],
    [program |-> TRUE,  imports |-> << Imp("Include", TRUE, "b") >>, blocks |-> {"x"}, use |-> 1, typedefs |-> {}, macros |-> {}],
    [program |-> TRUE,  imports |-> << >>, blocks |-> {"x"}, use |-> 0, typedefs |-> {}, macros |-> {}],
    [program |-> TRUE,  imports |-> << Imp("FromImport", TRUE, "b") >>, blocks |-> {"x"}, use |-> 1, typedefs |-> {}, macros |-> {}],
    [program |-> TRUE,  imports |-> << Imp("Import", TRUE, "b") >>, blocks |-> {"x"}, use |-> 1, typedefs |-> {}, macros |-> {}],
    [program |-> TRUE,  imports |-> << Imp("Extends", TRUE, "b"), Imp("Include", TRUE, "b") >>,
     blocks |-> {"x"}, use |-> 2, typedefs |-> {}, macros |-> {}],
    [program |-> TRUE,  imports |-> << Imp("Extends", TRUE, "b") >>, blocks |-> {"x"}, use |-> 0, typedefs |-> {}, macros |-> {}],
    [program |-> TRUE,  imports |-> << >>, blocks |-> {}, use |-> 0, typedefs |-> {"T1"}, macros |-> {}],
    [program |-> TRUE,  imports |-> << Imp("Extends", TRUE, "a") >>, blocks |-> {"x"}, use |-> 1, typedefs |-> {}, macros |-> {}],
    [program |-> TRUE,  imports |-> << >>, blocks |-> {}, use |-> 0, typedefs |-> {}, macros |-> {"x"}] >>

Texts == 1..Len(TextTable)
\* the texts an edit may bring while the import graph is watched, and the
\* texts of templates that extend, include or import one another
EditTexts == 1..7
ImportTexts == 8..14
TypedefTexts == {1, 3, 4, 15}

getDocumentAST(contents) == TextTable[contents]

\* what the file system may hold under each URI (NoText: the file is missing)
Disks == { f \in [URIs -> {NoText, 1, 3, 4}] :
              /\ f["d/a"] \in {NoText, 3, 4}
              /\ f["d/b"] \in {NoText, 3}
              /\ f["r/a"] = NoText
              /\ f["r/b"] = NoText }

\* the file systems of a single pass: every include graph over the two
\* documents of "d", self-inclusion and mutual inclusion among them
PassDisks == { f \in [URIs -> {NoText, 1, 3, 4}] :
                  f["r/a"] \in {NoText, 1} /\ f["r/b"] \in {NoText, 1} }

VARIABLES
    files,              \* readFile collaborator: URI -> text id or NoText
    documents,          \* state.documents: URI -> text id or NoText
    documentASTs,       \* state.documentASTs: URI -> id of the parse that built the AST (0: none)
    documentSymbols,    \* state.documentSymbols: URI -> id of the parse the symbols were collected from
    documentTypedefs,   \* state.documentTypedefs: likewise
    documentImports,    \* state.documentImports: URI -> sequence of import edges
    passes,             \* every analyzeDocument invocation so far, by id
    edits               \* number of notifications handled

serverVars == << files, documents, documentASTs, documentSymbols, documentTypedefs,
                 documentImports, passes, edits >>

VARIABLES
    astProgram,         \* the parsed document of a lookup: its statements in source order
    query,              \* the arguments of the last findSymbol call
    result              \* what the call returned

scopeVars == << astProgram, query, result >>

VARIABLES
    typedefTable,       \* the @typedef comments of the document, in source order:
                        \* the property types of each
    expandPc,           \* "idle", the formatter that runs ("doc", "hover") or "done"
    word,               \* the type name under the cursor (hover), "" otherwise
    stack,              \* the activations of the formatter that iterate over properties
    lines               \* the lines emitted so far: type name and indent

expandVars == << typedefTable, expandPc, word, stack, lines >>

VARIABLES
    macroDocs,          \* macro name -> the type its documentation gives its parameter
    callStack,          \* the resolveTypeReference calls that have not returned
    resolvePc           \* "idle", "resolving", "resolved" or "overflow"

resolveVars == << macroDocs, callStack, resolvePc >>

VARIABLES
    documentFieldsJsonContent,  \* the fields of fields.json as last read: a sequence
                                \* of field definitions
    documentModuleFields,       \* the type of `module` built from them
    documentFieldsJsonMap       \* the URI of the fields.json they were read from

moduleVars == << documentFieldsJsonContent, documentModuleFields, documentFieldsJsonMap >>

typeVars == << expandVars, resolveVars, moduleVars >>

vars == << serverVars, scopeVars, typeVars >>

\* the server state as one value, threaded through the synchronous code
Store == [documents |-> documents, documentASTs |-> documentASTs,
          documentSymbols |-> documentSymbols, documentTypedefs |-> documentTypedefs,
          documentImports |-> documentImports, passes |-> passes]

\* an import edge of documentImports: the statement node (pass = the parse
\* that created the node, idx = its position), and its resolved URI
Edge(id, k, stmt, uri) ==
    [pass |-> id, idx |-> k, type |-> stmt.type, literal |-> stmt.literal,
     value |-> stmt.value, uri |-> uri]

(***************************************************************************)
(* Scope resolution (symbols.ts)                                           *)
(***************************************************************************)
Names == {"m", "x"}

\* constants.ts: the implicit bindings of each kind of node, in the order of
\* the table (macro introspection, block inheritance)
SPECIAL_SYMBOLS ==
    << [definerType |-> "Macro", names |-> {"caller"}],
       [definerType |-> "Block", names |-> {"super"}] >>
SpecialNames == UNION { SPECIAL_SYMBOLS[i].names : i \in 1..Len(SPECIAL_SYMBOLS) }
SymbolTypes == {"Macro", "Block", "Variable"}
NoNode == -1

\* A statement of the document: a macro (with one parameter), a block, a set
\* statement, or an expression that uses a name.  parent is the index of the
\* enclosing macro or block (0: the Program).
Statement(kind, name, param, scoped, parent) ==
    [kind |-> kind, name |-> name, param |-> param, scoped |-> scoped, parent |-> parent]

StatementsAt(k) ==
    { Statement("Macro", n, "x", FALSE, q) : n \in Names, q \in 0..(k - 1) }
    \cup { Statement("Block", n, "", sc, q) : n \in Names, sc \in BOOLEAN, q \in 0..(k - 1) }
    \cup { Statement("Set", n, "", FALSE, q) : n \in Names \cup SpecialNames, q \in 0..(k - 1) }
    \cup { Statement("Use", "", "", FALSE, q) : q \in 0..(k - 1) }

RECURSIVE EnclosingStatements(_, _)
EnclosingStatements(doc, k) ==
    IF k = 0 THEN {0} ELSE {k} \cup EnclosingStatements(doc, doc[k].parent)

\* statements are listed in source order, so a statement is nested in the
\* previous statement or in one of the statements that enclose it
MayFollow(doc, st) ==
    /\ st.parent # 0 => doc[st.parent].kind \in {"Macro", "Block", "For"}
    /\ Len(doc) > 0 => st.parent \in EnclosingStatements(doc, Len(doc))

\* Nodes: 0 is the Program, 3k the k-th statement, 3k+1 its name identifier
\* and 3k+2 its parameter identifier (children of the statement).
StatementNode(k) == 3 * k
NameNode(k) == 3 * k + 1
ArgumentNode(k) == 3 * k + 2
IsIdentifier(node) == node % 3 # 0
StatementOf(node) == node \div 3

nodeType(doc, node) ==
    IF node = 0 THEN "Program"
    ELSE IF IsIdentifier(node) THEN "Identifier"
    ELSE doc[StatementOf(node)].kind

parentOf(doc, node) ==
    IF node = 0 THEN NoNode
    ELSE IF IsIdentifier(node) THEN StatementNode(StatementOf(node))
    ELSE StatementNode(doc[StatementOf(node)].parent)

\* ast.Node.getStart: nodes are numbered in the order in which they start
getStart(node) == node

isScoped(doc, node) == nodeType(doc, node) = "Block" /\ doc[StatementOf(node)].scoped

definesScope_EveryBlock(doc, node) ==
    nodeType(doc, node) \in {"Program", "Macro", "Block"}

\* ast.Node.definesScope
definesScope(doc, node) ==
    \/ nodeType(doc, node) \in {"Program", "Macro"}
    \/ isScoped(doc, node)

\* symbols.ts 748-752
RECURSIVE ScopeAtOrAbove(_, _)
ScopeAtOrAbove(doc, node) ==
    IF node = NoNode THEN NoNode
    ELSE IF definesScope(doc, node) THEN node
    ELSE ScopeAtOrAbove(doc, parentOf(doc, node))

\* symbols.ts 743-753
getScope(doc, node, initial) ==
    IF node = NoNode THEN NoNode
    ELSE IF ~initial /\ nodeType(doc, node) = "Block" /\ ~isScoped(doc, node) THEN NoNode
    ELSE ScopeAtOrAbove(doc, parentOf(doc, node))

\* symbols.ts 774-779
RECURSIVE ReachesScope(_, _, _)
ReachesScope(doc, currentScope, symbolScope) ==
    IF currentScope = NoNode THEN FALSE
    ELSE IF currentScope = symbolScope THEN TRUE
    ELSE ReachesScope(doc, getScope(doc, currentScope, FALSE), symbolScope)

DefinedAfterwards_Hoisted(node, inScopeOf) == FALSE

\* symbols.ts 760-769
DefinedAfterwards(node, inScopeOf) ==
    inScopeOf # NoNode /\ getStart(inScopeOf) < getStart(node)

\* symbols.ts 755-785
isInScope(doc, node, inScopeOf) ==
    IF DefinedAfterwards(node, inScopeOf) THEN FALSE
    ELSE LET symbolScope == getScope(doc, node, TRUE)
             found == getScope(doc, inScopeOf, TRUE)
             currentScope == IF found = NoNode THEN 0 ELSE found
         IN  ReachesScope(doc, currentScope, symbolScope)

Symbol(name, type, node, identifierNode) ==
    [name |-> name, type |-> type, node |-> node, identifierNode |-> identifierNode]
NoSymbol == Symbol("", "None", NoNode, NoNode)

ParameterNode_Statement(k) == StatementNode(k)

\* symbols.ts 522-530: the node that carries a macro parameter
ParameterNode(k) == NameNode(k)

\* symbols.ts 447-549, 581-588: the symbols one statement adds, in order
collectSymbols(doc, k) ==
    LET st == doc[k] IN
    IF st.kind = "Macro"
    THEN << Symbol(st.name, "Macro", StatementNode(k), NoNode),
            Symbol(st.name, "Variable", StatementNode(k), NameNode(k)),
            Symbol(st.param, "Variable", ParameterNode(k), ArgumentNode(k)) >>
    ELSE IF st.kind = "Block" THEN << Symbol(st.name, "Block", StatementNode(k), NoNode) >>
    ELSE IF st.kind = "Set" THEN << Symbol(st.name, "Variable", StatementNode(k), NameNode(k)) >>
    ELSE IF st.kind = "For" THEN << Symbol(st.name, "Variable", NameNode(k), NameNode(k)) >>
    ELSE << >>

\* server.ts 175-184: walk the statements in source order
RECURSIVE walk(_, _)
walk(doc, k) ==
    IF k = 0 THEN << >> ELSE walk(doc, k - 1) \o collectSymbols(doc, k)

\* symbols.ts 399-403, 877: the definitions stored under one name, in insertion order
symbolOptions(doc, name) ==
    LET all == walk(doc, Len(doc))
        Named(sym) == sym.name = name
    IN  SelectSeq(all, Named)

\* symbols.ts 880-892: from the last definition to the first
RECURSIVE LastVisible(_, _, _, _, _)
LastVisible(doc, options, i, type, inScopeOf) ==
    IF i = 0 THEN NoSymbol
    ELSE IF options[i].type = type /\ isInScope(doc, options[i].node, inScopeOf)
         THEN options[i]
         ELSE LastVisible(doc, options, i - 1, type, inScopeOf)

RECURSIVE FirstVisible(_, _, _, _, _)
FirstVisible(doc, options, i, type, inScopeOf) ==
    IF i > Len(options) THEN NoSymbol
    ELSE IF options[i].type = type /\ isInScope(doc, options[i].node, inScopeOf)
         THEN options[i]
         ELSE FirstVisible(doc, options, i + 1, type, inScopeOf)

\* utilities.ts: the nearest node of the given type at or above the node
RECURSIVE parentOfType(_, _, _)
parentOfType(doc, node, type) ==
    IF node = NoNode THEN NoNode
    ELSE IF nodeType(doc, node) = type THEN node
    ELSE parentOfType(doc, parentOf(doc, node), type)

\* symbols.ts 796-808: the first kind of the table that has the name and
\* encloses the use site
RECURSIVE specialSymbol(_, _, _, _)
specialSymbol(doc, name, inScopeOf, i) ==
    IF i > Len(SPECIAL_SYMBOLS) THEN NoSymbol
    ELSE LET parent == parentOfType(doc, inScopeOf, SPECIAL_SYMBOLS[i].definerType)
         IN  IF name \in SPECIAL_SYMBOLS[i].names /\ parent # NoNode
             THEN Symbol(name, "Variable", parent,
                         IF nodeType(doc, parent) = "Macro"
                         THEN NameNode(StatementOf(parent)) ELSE NoNode)
             ELSE specialSymbol(doc, name, inScopeOf, i + 1)

\* symbols.ts 877-892: the definitions of the document itself
documentSymbol(doc, name, type, inScopeOf) ==
    LET options == symbolOptions(doc, name)
    IN  LastVisible(doc, options, Len(options), type, inScopeOf)

findSymbolInDocument_FirstMatch(doc, name, type, inScopeOf) ==
    FirstVisible(doc, symbolOptions(doc, name), 1, type, inScopeOf)

findSymbolInDocument_UserFirst(doc, name, type, inScopeOf) ==
    LET user == documentSymbol(doc, name, type, inScopeOf)
    IN  IF user # NoSymbol THEN user
        ELSE IF type = "Variable" THEN specialSymbol(doc, name, inScopeOf, 1)
        ELSE NoSymbol

\* symbols.ts 787-893 for names that are not globals
findSymbolInDocument(doc, name, type, inScopeOf) ==
    LET special == IF type = "Variable" THEN specialSymbol(doc, name, inScopeOf, 1)
                   ELSE NoSymbol
    IN  IF special # NoSymbol THEN special
        ELSE documentSymbol(doc, name, type, inScopeOf)

\* symbols.ts 998-1033 for a document without resolved imports
findSymbol(doc, inScopeOf, name, type) == findSymbolInDocument(doc, name, type, inScopeOf)

\* symbols.ts 1060-1073: from the first definition on, the first of the type
\* that is in scope and is not the node itself
RECURSIVE FirstListed(_, _, _, _, _)
FirstListed(doc, options, i, type, node) ==
    IF i > Len(options) THEN NoSymbol
    ELSE IF /\ options[i].type = type
            /\ isInScope(doc, options[i].node, node)
            /\ options[i].node # node
         THEN options[i]
         ELSE FirstListed(doc, options, i + 1, type, node)

\* symbols.ts 1084-1102: every kind of the table sets its names, a later kind
\* over an earlier one
RECURSIVE specialListed(_, _, _, _)
specialListed(doc, name, node, i) ==
    IF i = 0 THEN NoSymbol
    ELSE LET parent == parentOfType(doc, node, SPECIAL_SYMBOLS[i].definerType)
         IN  IF name \in SPECIAL_SYMBOLS[i].names /\ parent # NoNode
             THEN Symbol(name, "Variable", parent,
                         IF nodeType(doc, parent) = "Macro"
                         THEN NameNode(StatementOf(parent)) ELSE NoNode)
             ELSE specialListed(doc, name, node, i - 1)

\* symbols.ts 1042-1142: the entry of the result map under the name, for a
\* document without resolved imports and a name that is no global
findSymbolsInScope(doc, node, type, name) ==
    LET special == IF type = "Variable"
                   THEN specialListed(doc, name, node, Len(SPECIAL_SYMBOLS))
                   ELSE NoSymbol
    IN  IF special # NoSymbol THEN special
        ELSE FirstListed(doc, symbolOptions(doc, name), 1, type, node)

NoQuery == [use |-> NoNode, name |-> "", type |-> ""]

ScopeIdle ==
    /\ astProgram = << >>
    /\ query = NoQuery
    /\ result = NoSymbol

\* the document grows by one statement and is parsed again
ParseStatement(st) ==
    /\ Len(astProgram) < MaxNodes
    /\ MayFollow(astProgram, st)
    /\ astProgram' = Append(astProgram, st)
    /\ query' = NoQuery
    /\ result' = NoSymbol
    /\ UNCHANGED << serverVars, typeVars >>

\* a feature looks a name up at an expression of the document
Lookup(k, name, type) ==
    /\ astProgram[k].kind = "Use"
    /\ query' = [use |-> StatementNode(k), name |-> name, type |-> type]
    /\ result' = findSymbol(astProgram, StatementNode(k), name, type)
    /\ UNCHANGED << astProgram, serverVars, typeVars >>

(***************************************************************************)
(* Listing the symbols in scope (symbols.ts)                               *)
(***************************************************************************)
\* completion lists the symbols in scope of the use site and the definition
\* of the same name is asked from there
ListAndFind(k, name, type) ==
    /\ astProgram[k].kind = "Use"
    /\ query' = [use |-> StatementNode(k), name |-> name, type |-> type]
    /\ result' = [listed |-> findSymbolsInScope(astProgram, StatementNode(k), type, name),
                  found |-> findSymbol(astProgram, StatementNode(k), name, type)]
    /\ UNCHANGED << astProgram, serverVars, typeVars >>

(***************************************************************************)
(* The symbols a document offers to its importers (symbols.ts 940-992)     *)
(***************************************************************************)
\* getImportedSymbols asks the imported document without a use site
LookupImported(name, type) ==
    /\ astProgram # << >>
    /\ query' = [use |-> NoNode, name |-> name, type |-> type]
    /\ result' = findSymbolInDocument(astProgram, name, type, NoNode)
    /\ UNCHANGED << astProgram, serverVars, typeVars >>

(***************************************************************************)
(* Typedef expansion (docFormatting.ts, hover.ts)                          *)
(***************************************************************************)
MAX_TYPEDEF_EXPANSION_DEPTH == 5

\* the names documentation comments use for types: the k-th @typedef of the
\* document is named TypeNames[k]
TypeNames == << "T1", "T2", "T3", "T4", "T5", "T6", "T7", "T8", "T9", "T10" >>

PRIMITIVE_TYPES ==
    { "string", "str", "number", "int", "integer", "float", "bool", "boolean", "any",
      "object", "dict", "list", "array", "tuple", "null", "undefined" }

\* String.prototype.toLowerCase on the names that occur
toLowerCase(s) ==
    IF s = "String" THEN "string"
    ELSE IF \E k \in DOMAIN TypeNames : TypeNames[k] = s
         THEN CHOOSE l \in { "t1", "t2", "t3", "t4", "t5", "t6", "t7", "t8", "t9", "t10" } :
                  \E k \in DOMAIN TypeNames :
                      /\ TypeNames[k] = s
                      /\ l = << "t1", "t2", "t3", "t4", "t5", "t6", "t7", "t8", "t9", "t10" >>[k]
         ELSE s

\* the property types the k-th typedef may declare: the next typedef, itself
\* and the next, the first typedef, a primitive, or no property at all
PropertyTypesAt(k) ==
    { << TypeNames[k + 1] >>, << TypeNames[k], TypeNames[k + 1] >>, << TypeNames[1] >>,
      << "String" >>, << >> }

RefersTo(props, name) == \E i \in DOMAIN props : props[i] = name

\* documentTypedefs.get(uri): has / get
IsTypedef(table, type) == \E k \in DOMAIN table : TypeNames[k] = type
PropertiesOf(table, type) ==
    table[CHOOSE k \in DOMAIN table : TypeNames[k] = type]

ShouldExpand_Unguarded(table, type, depth, expandedTypes) ==
    /\ toLowerCase(type) \notin PRIMITIVE_TYPES
    /\ IsTypedef(table, type) /\ Len(PropertiesOf(table, type)) > 0

\* docFormatting.ts 101-109: is the type expanded into nested lines?
ShouldExpand(table, type, depth, expandedTypes) ==
    /\ depth < MAX_TYPEDEF_EXPANSION_DEPTH
    /\ toLowerCase(type) \notin PRIMITIVE_TYPES
    /\ type \notin expandedTypes
    /\ IsTypedef(table, type) /\ Len(PropertiesOf(table, type)) > 0

ShouldExpandForHover_Repeating(table, type, depth, expandedTypes) ==
    /\ depth < MAX_TYPEDEF_EXPANSION_DEPTH
    /\ toLowerCase(type) \notin PRIMITIVE_TYPES
    /\ IsTypedef(table, type)

\* hover.ts 39-45: likewise, with the typedef looked up by resolveTypeReference
\* (symbols.ts 128-132; the documents here define no macros and import nothing)
ShouldExpandForHover(table, type, depth, expandedTypes) ==
    /\ depth < MAX_TYPEDEF_EXPANSION_DEPTH
    /\ toLowerCase(type) \notin PRIMITIVE_TYPES
    /\ type \notin expandedTypes
    /\ IsTypedef(table, type)

\* one activation that iterates over a list of properties: the next property
\* to format and the arguments the recursive calls get
Frame(props, indent, depth, expandedTypes) ==
    [props |-> props, i |-> 1, indent |-> indent, depth |-> depth,
     expandedTypes |-> expandedTypes]

Line(type, indent) == [type |-> type, indent |-> indent]

ExpandIdle ==
    /\ typedefTable = << >>
    /\ expandPc = "idle"
    /\ word = ""
    /\ stack = << >>
    /\ lines = << >>

\* symbols.ts 655-662: one more @typedef comment is parsed; it is the type
\* the previous one refers to
ParseTypedef(props) ==
    /\ expandPc = "idle"
    /\ Len(typedefTable) < MaxTypes
    /\ Len(typedefTable) > 0 =>
          RefersTo(typedefTable[Len(typedefTable)], TypeNames[Len(typedefTable) + 1])
    /\ typedefTable' = Append(typedefTable, props)
    /\ UNCHANGED << expandPc, word, stack, lines, resolveVars, moduleVars, serverVars, scopeVars >>

\* docFormatting.ts 211-224: a documentation comment with one @property of
\* the given type is formatted
formatJSDocLikeMarkdown(type) ==
    /\ expandPc = "idle"
    /\ Len(typedefTable) > 0
    /\ expandPc' = "doc"
    /\ stack' = << Frame(<< type >>, 0, 0, {}) >>
    /\ UNCHANGED << typedefTable, word, lines, resolveVars, moduleVars, serverVars, scopeVars >>

\* hover.ts 183-227: hover on the name of a typedef in a comment
getHover(w) ==
    /\ expandPc = "idle"
    /\ IsTypedef(typedefTable, w)
    /\ expandPc' = "hover"
    /\ word' = w
    /\ stack' = << Frame(PropertiesOf(typedefTable, w), 0, 0, {w}) >>
    /\ UNCHANGED << typedefTable, lines, resolveVars, moduleVars, serverVars, scopeVars >>

\* the activation on top of the stack formats its next property: the line is
\* emitted and, if the type is expanded, an activation for its properties is
\* entered; an activation without properties left returns
FormatStep(pc, expands) ==
    /\ expandPc = pc
    /\ LET n == Len(stack)
           f == stack[n]
       IN  IF n = 0 THEN
               /\ expandPc' = "done"
               /\ UNCHANGED << stack, lines >>
           ELSE IF f.i > Len(f.props) THEN
               /\ stack' = SubSeq(stack, 1, n - 1)
               /\ UNCHANGED << expandPc, lines >>
           ELSE
               /\ Len(lines) < MaxLines
               /\ lines' = Append(lines, Line(f.props[f.i], f.indent))
               /\ stack' =
                     LET returned == [stack EXCEPT ![n].i = f.i + 1]
                     IN  IF expands
                         THEN Append(returned,
                                     Frame(PropertiesOf(typedefTable, f.props[f.i]),
                                           f.indent + 1, f.depth + 1,
                                           f.expandedTypes \cup {f.props[f.i]}))
                         ELSE returned
               /\ UNCHANGED expandPc
    /\ UNCHANGED << typedefTable, word, resolveVars, moduleVars, serverVars, scopeVars >>

TopType == stack[Len(stack)].props[stack[Len(stack)].i]
HasNext == Len(stack) > 0 /\ stack[Len(stack)].i <= Len(stack[Len(stack)].props)

\* docFormatting.ts 86-138
formatPropertyLine ==
    FormatStep("doc", HasNext /\ ShouldExpand(typedefTable, TopType,
                                              stack[Len(stack)].depth,
                                              stack[Len(stack)].expandedTypes))

\* hover.ts 24-99
formatPropertyLineForHover ==
    FormatStep("hover", HasNext /\ ShouldExpandForHover(typedefTable, TopType,
                                                        stack[Len(stack)].depth,
                                                        stack[Len(stack)].expandedTypes))

(***************************************************************************)
(* Type references in macro documentation (symbols.ts)                     *)
(***************************************************************************)
MacroNames == {"m", "n"}
NoMacro == "-"
\* what a macro's documentation may give as the type of its parameter
DocTypes == {"String", "T1", "m", "n"}

\* symbols.ts 205-213: the names normalizeDocType maps to a builtin type
IsBuiltinDocType(raw) ==
    toLowerCase(raw) \in { "string", "str", "number", "float", "int", "integer", "bool",
                           "boolean", "object", "dict", "map", "record", "array", "list",
                           "any", "unknown" }

\* symbols.ts 135-137: a macro of that name has a Variable symbol
IsMacro(docs, typeName) == typeName \in MacroNames /\ docs[typeName] # NoMacro

Call(typeName) == [typeName |-> typeName, called |-> FALSE]

ResolveIdle ==
    /\ macroDocs = [n \in MacroNames |-> NoMacro]
    /\ callStack = << >>
    /\ resolvePc = "idle"

(***************************************************************************)
(* Module fields and the types of loop variables (moduleFields.ts,         *)
(* symbols.ts)                                                             *)
(***************************************************************************)
NoType == [name |-> "undefined"]
TypeReference(t) == [type |-> t]

\* moduleFields.ts 22-31: the occurrence entry of a field, absent or with a
\* max that is undefined, null or a number
Max(kind, value) == [kind |-> kind, value |-> value]
NoOccurrence == [entry |-> FALSE, max |-> Max("undefined", 0)]
Occurrence(max) == [entry |-> TRUE, max |-> max]
Occurrences ==
    {NoOccurrence, Occurrence(Max("undefined", 0)), Occurrence(Max("null", 0))}
        \cup { Occurrence(Max("number", n)) : n \in 0..2 }

\* a field of fields.json
Field(name, type, occurrence, children) ==
    [name |-> name, type |-> type, occurrence |-> occurrence, children |-> children]

\* moduleFields.ts 41-70 (the rows the fields of the model use)
SIMPLE_TYPE_MAP == [text |-> "str", number |-> "int"]

\* moduleFields.ts 377-384, 486-490: a later field of a name replaces an earlier one
RECURSIVE fieldToTypeInfo(_)
Properties(fields) ==
    [n \in { fields[i].name : i \in 1..Len(fields) } |->
        LET named == { i \in 1..Len(fields) : fields[i].name = n }
        IN  fieldToTypeInfo(fields[CHOOSE i \in named : \A j \in named : j <= i])]

\* moduleFields.ts 390-394
isRepeater_MaxGiven(field) ==
    /\ field.occurrence.entry
    /\ field.occurrence.max.kind = "number" /\ field.occurrence.max.value > 1

isRepeater(field) ==
    /\ field.occurrence.entry
    /\ \/ field.occurrence.max.kind = "null"
       \/ field.occurrence.max.kind = "undefined"
       \/ field.occurrence.max.value > 1

\* moduleFields.ts 359-474
fieldToTypeInfo(field) ==
    IF field.type = "group"
    THEN IF isRepeater(field)
         THEN [name |-> "list",
               elementType |-> [name |-> "dict", properties |-> Properties(field.children)]]
         ELSE [name |-> "dict", properties |-> Properties(field.children)]
    ELSE IF field.type \in DOMAIN SIMPLE_TYPE_MAP
         THEN TypeReference(SIMPLE_TYPE_MAP[field.type])
         ELSE [name |-> "Any"]

\* moduleFields.ts 480-497
fieldsToModuleTypeInfo(fields) == [name |-> "module", properties |-> Properties(fields)]

\* types.ts resolveType: a reference becomes the type of that name
resolveType(t) == IF "type" \in DOMAIN t THEN [name |-> t.type] ELSE t

loopvarType_Iterable(iterableType) == resolveType(iterableType)

\* symbols.ts 556-560: the type of a loop variable from the type of the iterable
loopvarType(iterableType) ==
    LET resolved == resolveType(iterableType)
    IN  resolveType(IF "elementType" \in DOMAIN resolved THEN resolved.elementType
                    ELSE NoType)

\* types.ts getType of a MemberExpression: the named property of the
\* resolved type of the object
memberType(objectType, property) ==
    LET resolved == resolveType(objectType)
    IN  IF "properties" \in DOMAIN resolved /\ property \in DOMAIN resolved.properties
        THEN resolved.properties[property]
        ELSE NoType

\* a for statement with one loop variable; iterable: the member expression
\* << object name, property >>
For(loopvar, iterable, parent) ==
    [kind |-> "For", name |-> loopvar, param |-> "", scoped |-> FALSE, parent |-> parent,
     iterable |-> iterable]
LoopNames == {"item", "sub"}
\* the statements of the template nest: each is in the body of the for
\* statement opened last
LoopsAt(doc) ==
    LET k == Len(doc)
        q == IF k = 0 THEN 0 ELSE IF doc[k].kind = "For" THEN k ELSE doc[k].parent
        Iterables == { << "module", "items" >>, << "module", "title" >>, << "item", "sub" >> }
    IN  { st \in { For(v, it, q) : v \in LoopNames, it \in Iterables } :
             st.iterable[1] # st.name }
        \cup { Statement("Use", "", "", FALSE, q) }

\* the for statement whose loop variable the name is at the node (0: none)
LoopOf(doc, name, node) ==
    LET sym == findSymbol(doc, node, name, "Variable")
    IN  IF sym # NoSymbol /\ nodeType(doc, parentOf(doc, sym.node)) = "For"
        THEN StatementOf(sym.node) ELSE 0

\* types.ts getType of an Identifier and of a MemberExpression on it, for the
\* names of the model: `module` and loop variables (symbols.ts 550-561)
RECURSIVE getType(_, _, _, _)
getType(doc, moduleType, expr, node) ==
    LET k == LoopOf(doc, expr[1], node)
        object == IF k # 0
                  THEN loopvarType(getType(doc, moduleType, doc[k].iterable, ArgumentNode(k)))
                  ELSE IF expr[1] = "module" THEN moduleType
                  ELSE NoType
    IN  IF Len(expr) = 1 THEN object ELSE memberType(object, expr[2])

ModuleIdle ==
    /\ documentFieldsJsonContent = << >>
    /\ documentModuleFields = NoType
    /\ documentFieldsJsonMap = NoURI

\* moduleFields.ts 510-514: fields.json next to the module template
fieldsJsonUri == "fields.json"

\* server.ts 203-229: fields.json of the module is read and converted
LoadFields(fields) ==
    /\ documentFieldsJsonContent = << >>
    /\ documentFieldsJsonContent' = fields
    /\ documentModuleFields' = fieldsToModuleTypeInfo(fields)
    /\ documentFieldsJsonMap' = fieldsJsonUri
    /\ UNCHANGED << expandVars, resolveVars, serverVars, scopeVars >>

\* what the read of fields.json brings in a pass: a field list, nothing (the
\* file is missing or empty), a text that is no field list, or a failure of
\* the request
Answer(kind, fields) == [kind |-> kind, fields |-> fields]

\* server.ts 174-229 for a module template: nothing is stored for a text
\* that does not parse; the three maps are set for a field list, left as
\* they are for a missing file or a text that is no field list, and two of
\* them are deleted when the read throws
analyzeModule(program, answer) ==
    /\ query' = [use |-> NoNode, name |-> "", type |-> "analyzeDocument",
                 program |-> program, answer |-> answer]
    /\ result' = NoSymbol
    /\ IF program /\ answer.kind = "fields"
       THEN /\ documentModuleFields' = fieldsToModuleTypeInfo(answer.fields)
            /\ documentFieldsJsonMap' = fieldsJsonUri
            /\ documentFieldsJsonContent' = answer.fields
       ELSE IF program /\ answer.kind = "throws"
       THEN /\ documentModuleFields' = NoType
            /\ documentFieldsJsonMap' = NoURI
            /\ UNCHANGED documentFieldsJsonContent
       ELSE UNCHANGED moduleVars
    /\ UNCHANGED << astProgram, expandVars, resolveVars, serverVars >>

\* the template of the module grows by one statement and is parsed again
ParseLoop(st) ==
    /\ documentFieldsJsonContent # << >>
    /\ Len(astProgram) < MaxNodes
    /\ MayFollow(astProgram, st)
    /\ astProgram' = Append(astProgram, st)
    /\ query' = NoQuery
    /\ result' = NoSymbol
    /\ UNCHANGED << serverVars, typeVars >>

\* hover asks for the type of an expression of the template
TypeOf(k, expr) ==
    /\ astProgram[k].kind = "Use"
    /\ query' = [use |-> StatementNode(k), name |-> expr[1], type |-> "Type", expr |-> expr]
    /\ result' = getType(astProgram, documentModuleFields, expr, StatementNode(k))
    /\ UNCHANGED << astProgram, serverVars, typeVars >>

(***************************************************************************)
(* Parameter types from a macro's documentation comment (symbols.ts)       *)
(***************************************************************************)
\* a tag of the comment: `@param {rawType} a.b` or `@property {rawType} a.b`,
\* variable: the names between the dots
Tag(kind, rawType, variable) == [kind |-> kind, rawType |-> rawType, variable |-> variable]
Tags ==
    { Tag(kind, rawType, variable) :
         kind \in {"param", "property"}, rawType \in {"string", "object"},
         variable \in { << "data" >>, << "a" >>, << "data", "a" >>, << "data", "a", "b" >>,
                        << "q", "a" >> } }

\* symbols.ts 201-223, in a document without typedefs and macros of that name
normalizeDocType(raw) ==
    IF raw \in {"string", "str"} THEN "str"
    ELSE IF raw \in {"object", "dict", "map", "record"} THEN "dict"
    ELSE raw

Put(map, key, value) == [k \in DOMAIN map \cup {key} |-> IF k = key THEN value ELSE map[k]]

\* symbols.ts 225-255: parameterTypes after the call (the root is its entry)
ensureObjectParam(parameterTypes, name) ==
    LET existing == IF name \in DOMAIN parameterTypes THEN parameterTypes[name] ELSE NoType
        resolved == resolveType(existing)
    IN  IF name \in DOMAIN parameterTypes /\ "name" \in DOMAIN existing
           /\ "properties" \in DOMAIN existing
        THEN parameterTypes
        ELSE Put(parameterTypes, name,
                 [name |-> IF resolved.name = "list" THEN "list" ELSE "dict",
                  properties |-> IF "properties" \in DOMAIN resolved THEN resolved.properties
                                 ELSE << >>])

setNestedProperty_Leaf(root, path, value) ==
    [name |-> root.name, properties |-> Put(root.properties, path[Len(path)], value)]

\* symbols.ts 257-278: the root after the call
RECURSIVE setNestedProperty(_, _, _)
setNestedProperty(root, path, value) ==
    LET key == path[1]
        properties == IF "properties" \in DOMAIN root THEN root.properties ELSE << >>
        child == IF key \in DOMAIN properties /\ "name" \in DOMAIN properties[key]
                 THEN properties[key]
                 ELSE [name |-> "dict", properties |-> << >>]
        next == IF Len(path) = 1 THEN value
                ELSE setNestedProperty(child, Tail(path), value)
    IN  [k \in DOMAIN root \cup {"properties"} |->
            IF k = "properties" THEN Put(properties, key, next) ELSE root[k]]

\* symbols.ts 280-310
upsertParam(parameterTypes, name, type) ==
    IF normalizeDocType(type) \in {"dict", "list", "Any"}
    THEN ensureObjectParam(parameterTypes, name)
    ELSE Put(parameterTypes, name, TypeReference(normalizeDocType(type)))

\* symbols.ts 322-341 and 358-386: one tag is applied to parameterTypes
applyTag(parameterTypes, tag) ==
    LET value == TypeReference(normalizeDocType(tag.rawType))
        Attach(rootName, rest) ==
            LET types == ensureObjectParam(parameterTypes, rootName)
            IN  Put(types, rootName, setNestedProperty(types[rootName], rest, value))
        objectParams == { n \in DOMAIN parameterTypes :
                             resolveType(parameterTypes[n]).name = "dict" }
    IN  IF Len(tag.variable) > 1 THEN Attach(tag.variable[1], Tail(tag.variable))
        ELSE IF tag.kind = "param" THEN upsertParam(parameterTypes, tag.variable[1], tag.rawType)
        ELSE IF Cardinality(objectParams) = 1
             THEN Attach(CHOOSE n \in objectParams : TRUE, tag.variable)
             ELSE parameterTypes

RECURSIVE applyTags(_, _)
applyTags(parameterTypes, tags) ==
    IF tags = << >> THEN parameterTypes
    ELSE applyTags(applyTag(parameterTypes, Head(tags)), Tail(tags))

\* symbols.ts 195-390: every @param tag is applied (313-343), then every
\* @property tag (345-388)
getParametersFromDocumentation(documentation) ==
    LET IsParam(tag) == tag.kind = "param"
        IsProperty(tag) == tag.kind = "property"
    IN  applyTags(<< >>, SelectSeq(documentation, IsParam)
                            \o SelectSeq(documentation, IsProperty))

\* `{% macro m(data) %}` with its documentation comment
DocumentedMacro(documentation) ==
    [kind |-> "Macro", name |-> "m", param |-> "data", scoped |-> FALSE, parent |-> 0,
     documentation |-> documentation]

\* the comment in front of the macro grows by one tag and the document is
\* parsed again
ParseTag(tag) ==
    /\ IF astProgram = << >> THEN TRUE ELSE Len(astProgram[1].documentation) < MaxTags
    /\ astProgram' = << DocumentedMacro(IF astProgram = << >> THEN << tag >>
                                         ELSE Append(astProgram[1].documentation, tag)) >>
    /\ query' = NoQuery
    /\ result' = NoSymbol
    /\ UNCHANGED << serverVars, typeVars >>

\* symbols.ts 522-543: getType of the symbol of a positional macro argument
ArgumentType ==
    /\ astProgram # << >>
    /\ query' = [use |-> StatementNode(1), name |-> astProgram[1].param, type |-> "Type"]
    /\ result' = LET parameterTypes == getParametersFromDocumentation(astProgram[1].documentation)
                      name == astProgram[1].param
                  IN  IF name \in DOMAIN parameterTypes THEN parameterTypes[name] ELSE NoType
    /\ UNCHANGED << astProgram, serverVars, typeVars >>

(***************************************************************************)
(* The parser on block openers and closers (language package)              *)
(***************************************************************************)
\* the tags of a text: a loop opener, a loop closer, literal text, and a tag
\* with an unexpected token (`{% for %}` without a loop variable)
TagTokens == {"for", "endfor", "text", "unexpected"}
Thrown == [program |-> FALSE, parserErrors |-> 0]

\* parse(tokens, tolerant) from the tag at hand on: depth open loops and
\* errors recorded so far
RECURSIVE parseFrom(_, _, _, _)
parseFrom(tokens, depth, errors, tolerant) ==
    IF tokens = << >>
    THEN IF depth = 0 THEN [program |-> TRUE, parserErrors |-> errors]
         ELSE IF tolerant THEN [program |-> TRUE, parserErrors |-> errors + depth]
         ELSE Thrown
    ELSE IF Head(tokens) = "for" THEN parseFrom(Tail(tokens), depth + 1, errors, tolerant)
    ELSE IF Head(tokens) = "endfor"
         THEN IF depth = 0 THEN Thrown
              ELSE parseFrom(Tail(tokens), depth - 1, errors, tolerant)
    ELSE IF Head(tokens) = "unexpected"
         THEN IF tolerant THEN parseFrom(Tail(tokens), depth, errors + 1, tolerant)
              ELSE Thrown
    ELSE parseFrom(Tail(tokens), depth, errors, tolerant)

parse_Recovering(tokens, tolerant) ==
    IF tolerant /\ parseFrom(tokens, 0, 0, tolerant) = Thrown
    THEN [program |-> TRUE, parserErrors |-> 1]
    ELSE parseFrom(tokens, 0, 0, tolerant)

parse(tokens, tolerant) == parseFrom(tokens, 0, 0, tolerant)

\* the text grows by one tag
TypeTag(token) ==
    /\ Len(astProgram) < MaxNodes
    /\ astProgram' = Append(astProgram, token)
    /\ query' = NoQuery
    /\ result' = NoSymbol
    /\ UNCHANGED << serverVars, typeVars >>

\* the text is parsed: strictly (language tests), or tolerantly and with the
\* throw caught (server.ts 74-84, where {} has no program)
Parse(tolerant) ==
    /\ query' = [use |-> NoNode, name |-> "", type |-> "Parse", tolerant |-> tolerant]
    /\ result' = parse(astProgram, tolerant)
    /\ UNCHANGED << astProgram, serverVars, typeVars >>

(***************************************************************************)
(* The parser on the tokens of one tag (language package)                  *)
(***************************************************************************)
\* the code-mode tokens between `{%` and `%}`: identifiers, `=`, a literal
TagNames == {"module", "dnd_area", "endfor"}
ArgumentTokens == {"path", "label", "=", "'x'"}
\* statement keywords with a production of their own
StatementKeywords == {"endfor"}

KeywordArgumentExpression(key, value) ==
    [type |-> "KeywordArgumentExpression", key |-> key, value |-> value]
PositionalArgument(value) ==
    [type |-> "Expression", key |-> "", value |-> value]
TagStatement(tagName, args) == [type |-> "TagStatement", tagName |-> tagName, args |-> args]

\* every argument taken as a positional expression: `=` is never expected
RECURSIVE parseTagArguments_Positional(_, _, _, _)
parseTagArguments_Positional(tokens, args, errors, tolerant) ==
    IF tokens = << >> THEN [args |-> args, parserErrors |-> errors, thrown |-> FALSE]
    ELSE IF Head(tokens) = "="
         THEN IF tolerant
              THEN parseTagArguments_Positional(Tail(tokens), args, errors + 1, tolerant)
              ELSE [args |-> args, parserErrors |-> errors, thrown |-> TRUE]
    ELSE parseTagArguments_Positional(Tail(tokens),
             Append(args, PositionalArgument(Head(tokens))), errors, tolerant)

\* the tag's arguments from the token at hand on: `key = value` is a keyword
\* argument, a value alone a positional one; where an expression is expected
\* and `=` or the end of the tag stands, an error is recorded (tolerant) or
\* thrown (strict)
RECURSIVE parseTagArguments(_, _, _, _)
parseTagArguments(tokens, args, errors, tolerant) ==
    IF tokens = << >> THEN [args |-> args, parserErrors |-> errors, thrown |-> FALSE]
    ELSE IF Head(tokens) = "="
         THEN IF tolerant THEN parseTagArguments(Tail(tokens), args, errors + 1, tolerant)
              ELSE [args |-> args, parserErrors |-> errors, thrown |-> TRUE]
    ELSE IF Len(tokens) >= 2 /\ tokens[2] = "=" /\ Head(tokens) # "'x'"
         THEN IF Len(tokens) >= 3 /\ tokens[3] # "="
              THEN parseTagArguments(SubSeq(tokens, 4, Len(tokens)),
                       Append(args, KeywordArgumentExpression(tokens[1], tokens[3])),
                       errors, tolerant)
              ELSE IF tolerant
                   THEN parseTagArguments(SubSeq(tokens, 3, Len(tokens)),
                            Append(args, KeywordArgumentExpression(tokens[1], "missing")),
                            errors + 1, tolerant)
                   ELSE [args |-> args, parserErrors |-> errors, thrown |-> TRUE]
    ELSE parseTagArguments(Tail(tokens), Append(args, PositionalArgument(Head(tokens))),
             errors, tolerant)

\* parse(tokens, tolerant) of a text of one tag: a keyword goes to its own
\* production, any other name to a generic TagStatement
parseTag(tokens, tolerant) ==
    IF Head(tokens) \in StatementKeywords THEN parse(<< Head(tokens) >>, tolerant)
    ELSE LET r == parseTagArguments(Tail(tokens), << >>, 0, tolerant) IN
         IF r.thrown THEN Thrown
         ELSE [program |-> TRUE, parserErrors |-> r.parserErrors,
               body |-> << TagStatement(Head(tokens), r.args) >>]

\* the tag grows by one token: its name first, then its arguments
TypeToken(token) ==
    /\ Len(astProgram) < MaxTokens
    /\ IF astProgram = << >> THEN token \in TagNames ELSE token \in ArgumentTokens
    /\ astProgram' = Append(astProgram, token)
    /\ query' = NoQuery
    /\ result' = NoSymbol
    /\ UNCHANGED << serverVars, typeVars >>

ParseTagText(tolerant) ==
    /\ astProgram # << >>
    /\ query' = [use |-> NoNode, name |-> "", type |-> "Tag", tolerant |-> tolerant]
    /\ result' = parseTag(astProgram, tolerant)
    /\ UNCHANGED << astProgram, serverVars, typeVars >>

(***************************************************************************)
(* The lexer (language package)                                            *)
(***************************************************************************)
\* the characters of a text: a letter, a blank, the opening and the closing
\* delimiter of a tag (one character here) and the whitespace-control marker
Characters == {"a", " ", "{", "}", "-"}
\* a token's range, the end offset being the one past its last character
Token_InclusiveEnd(type, start, end) == [type |-> type, start |-> start, end |-> end + 1]
Token(type, start, end) == [type |-> type, start |-> start, end |-> end]

\* the first position from i on whose character is not in chars
consumeWhile(text, i, chars) ==
    CHOOSE j \in i..(Len(text) + 1) :
        /\ j = Len(text) + 1 \/ text[j] \notin chars
        /\ \A k \in i..(j - 1) : text[k] \in chars
\* the end of the run [s, j) without its trailing blanks
trimEnd(text, s, j) ==
    CHOOSE e \in s..j :
        /\ \A k \in e..(j - 1) : text[k] = " "
        /\ e = s \/ text[e - 1] # " "
At(text, i) == IF i \in 1..Len(text) THEN text[i] ELSE ""

\* the position after the opening delimiter at j, with its marker if any
openEnd(text, j) == IF At(text, j + 1) = "-" THEN j + 2 ELSE j + 1

\* tokenize from position i on (offsets are positions less one): in text mode
\* a run of literal text up to the next opening delimiter, trimmed where a
\* marker adjoins it; in code mode blanks are consumed and ignored,
\* letters make an identifier, the marker alone an operator
RECURSIVE tokenizeFrom(_, _, _, _, _, _)
tokenizeFrom(text, i, code, trim, tokens, errors) ==
    IF i > Len(text)
    THEN [tokens |-> tokens, lexerErrors |-> errors + (IF code THEN 1 ELSE 0)]
    ELSE IF ~code
    THEN LET j == consumeWhile(text, i, Characters \ {"{"})
             s == IF trim THEN consumeWhile(text, i, {" "}) ELSE i
             e == IF At(text, j + 1) = "-" /\ j <= Len(text)
                  THEN trimEnd(text, IF s > j THEN j ELSE s, j) ELSE j
             run == IF s < e THEN << Token("Text", s - 1, e - 1) >> ELSE << >>
         IN IF j > Len(text)
            THEN tokenizeFrom(text, j, FALSE, FALSE, tokens \o run, errors)
            ELSE tokenizeFrom(text, openEnd(text, j), TRUE, FALSE,
                     (tokens \o run) \o << Token("OpenStatement", j - 1, openEnd(text, j) - 1) >>,
                     errors)
    ELSE IF text[i] = " "
         THEN tokenizeFrom(text, consumeWhile(text, i, {" "}), TRUE, FALSE, tokens, errors)
    ELSE IF text[i] = "a"
         THEN LET j == consumeWhile(text, i, {"a"}) IN
              tokenizeFrom(text, j, TRUE, FALSE,
                  Append(tokens, Token("Identifier", i - 1, j - 1)), errors)
    ELSE IF text[i] = "}"
         THEN tokenizeFrom(text, i + 1, FALSE, FALSE,
                  Append(tokens, Token("CloseStatement", i - 1, i)), errors)
    ELSE IF text[i] = "-" /\ At(text, i + 1) = "}"
         THEN tokenizeFrom(text, i + 2, FALSE, TRUE,
                  Append(tokens, Token("CloseStatement", i - 1, i + 1)), errors)
    ELSE IF text[i] = "-"
         THEN tokenizeFrom(text, i + 1, TRUE, FALSE,
                  Append(tokens, Token("Operator", i - 1, i)), errors)
    ELSE tokenizeFrom(text, i + 1, TRUE, FALSE, tokens, errors + 1)

tokenize(text) == tokenizeFrom(text, 1, FALSE, FALSE, << >>, 0)

\* the text grows by one character
TypeCharacter(c) ==
    /\ Len(astProgram) < MaxChars
    /\ astProgram' = Append(astProgram, c)
    /\ query' = NoQuery
    /\ result' = NoSymbol
    /\ UNCHANGED << serverVars, typeVars >>

Tokenize ==
    /\ query' = [use |-> NoNode, name |-> "", type |-> "Tokenize"]
    /\ result' = tokenize(astProgram)
    /\ UNCHANGED << astProgram, serverVars, typeVars >>

(***************************************************************************)
(* The types of assigned variables (symbols.ts 405-445, 582-589)           *)
(***************************************************************************)
Identifiers == {"x", "y"}
\* `{% set x = value %}` and `{% set x, y = value %}`: the assignee is an
\* Identifier (one name) or a TupleLiteral (its items), the value an
\* Identifier or a string literal
SetStatement(assignee, value) == [assignee |-> assignee, value |-> value]
SetStatements ==
    { SetStatement(assignee, value) :
        assignee \in {<< "x" >>, << "y" >>, << "x", "y" >>},
        value \in Identifiers \cup {"'s'"} }

\* `{ ...type, documentation }`: an object even when the type is undefined
WithDocumentation(t) ==
    IF t = NoType THEN [documentation |-> TRUE]
    ELSE IF "name" \in DOMAIN t THEN [name |-> t.name, documentation |-> TRUE]
    ELSE t

IsSelfAssignment_Never(item, value) == FALSE

\* symbols.ts 415-416 and 428-430
IsSelfAssignment(item, value) == value \in Identifiers /\ value = item

\* the Variable symbol of the name that is visible from the value of
\* statement k: the last item of that name assigned in the statements up to
\* and including k (symbols.ts 877-892)
AssignedBefore(doc, k, name) ==
    { d \in 1..k : \E i \in 1..Len(doc[d].assignee) : doc[d].assignee[i] = name }

\* a getType call of the symbol that item `item` of statement k defines
TypeCall(k, item) == [k |-> k, item |-> item, called |-> FALSE, type |-> NoType]

\* what the symbol's getType returns once its value is typed
assignedType(f, valueType) ==
    IF Len(astProgram[f.k].assignee) = 1 THEN WithDocumentation(valueType)
    ELSE WithDocumentation(NoType)

\* the call on top of the stack returns t to its caller
ReturnType(t) ==
    LET n == Len(callStack) IN
    IF n = 1
    THEN /\ callStack' = << >>
         /\ resolvePc' = "resolved"
         /\ result' = t
    ELSE /\ callStack' = [SubSeq(callStack, 1, n - 1) EXCEPT ![n - 1].called = TRUE,
                                                             ![n - 1].type = t]
         /\ UNCHANGED << resolvePc, result >>

\* the document grows by one set statement
ParseSetStatement(st) ==
    /\ resolvePc \in {"idle", "resolved"}
    /\ Len(astProgram) < MaxNodes
    /\ astProgram' = Append(astProgram, st)
    /\ query' = NoQuery
    /\ result' = NoSymbol
    /\ resolvePc' = "idle"
    /\ UNCHANGED << callStack, macroDocs, expandVars, moduleVars, serverVars >>

\* symbol.getType(document) is called for the symbol of an assigned name
GetAssignedType(k, item) ==
    /\ resolvePc \in {"idle", "resolved"}
    /\ item <= Len(astProgram[k].assignee)
    /\ query' = [use |-> k, name |-> astProgram[k].assignee[item], type |-> "getType"]
    /\ result' = NoSymbol
    /\ callStack' = << TypeCall(k, item) >>
    /\ resolvePc' = "resolving"
    /\ UNCHANGED << astProgram, macroDocs, expandVars, moduleVars, serverVars >>

\* symbols.ts 414-418 and 427-439: the innermost getType returns undefined
\* for a self-assignment and types the value otherwise; the type of an
\* Identifier value is asked of the symbol visible there, in a nested call
AssignedTypeStep ==
    /\ resolvePc = "resolving"
    /\ query.type = "getType"
    /\ LET n == Len(callStack)
           f == callStack[n]
           st == astProgram[f.k]
           defs == AssignedBefore(astProgram, f.k, st.value)
           d == CHOOSE x \in defs : \A y \in defs : y <= x
           i == CHOOSE x \in 1..Len(astProgram[d].assignee) :
                    /\ astProgram[d].assignee[x] = st.value
                    /\ \A y \in 1..Len(astProgram[d].assignee) :
                          astProgram[d].assignee[y] = st.value => y <= x
       IN  IF IsSelfAssignment(st.assignee[f.item], st.value) THEN ReturnType(NoType)
           ELSE IF f.called THEN ReturnType(assignedType(f, f.type))
           ELSE IF st.value \notin Identifiers
                THEN ReturnType(assignedType(f, [name |-> "str"]))
           ELSE IF defs = {} THEN ReturnType(assignedType(f, NoType))
           ELSE IF n < MaxCalls
                THEN /\ callStack' = Append(callStack, TypeCall(d, i))
                     /\ UNCHANGED << resolvePc, result >>
                ELSE /\ resolvePc' = "overflow"
                     /\ UNCHANGED << callStack, result >>
    /\ UNCHANGED << astProgram, query, macroDocs, expandVars, moduleVars, serverVars >>

TypeIdle == ExpandIdle /\ ResolveIdle /\ ModuleIdle

\* hover.ts 88, definition.ts 81: a type name in a comment is resolved
resolveTypeReference(typeName) ==
    /\ resolvePc = "idle"
    /\ resolvePc' = "resolving"
    /\ callStack' = << Call(typeName) >>
    /\ UNCHANGED << macroDocs, expandVars, moduleVars, serverVars, scopeVars >>

\* symbols.ts 122-193 with 454-463 and 195-223: the innermost call returns
\* the typedef of that name, or asks the macro of that name for its type,
\* which normalizes the documented parameter type and so resolves it in a
\* nested call; the engine's call stack holds MaxCalls calls
ResolveStep ==
    /\ resolvePc = "resolving"
    /\ LET n == Len(callStack)
           top == callStack[n]
           raw == macroDocs[top.typeName]
       IN  IF n = 0 THEN
               /\ resolvePc' = "resolved"
               /\ UNCHANGED callStack
           ELSE IF \/ IsTypedef(typedefTable, top.typeName)
                   \/ ~IsMacro(macroDocs, top.typeName)
                   \/ top.called
                   \/ IsBuiltinDocType(raw) THEN
               /\ callStack' = SubSeq(callStack, 1, n - 1)
               /\ UNCHANGED resolvePc
           ELSE IF n < MaxCalls THEN
               /\ callStack' = Append([callStack EXCEPT ![n].called = TRUE], Call(raw))
               /\ UNCHANGED resolvePc
           ELSE
               /\ resolvePc' = "overflow"
               /\ UNCHANGED callStack
    /\ UNCHANGED << macroDocs, expandVars, moduleVars, serverVars, scopeVars >>

(***************************************************************************)
(* The analysis driver (server.ts)                                         *)
(***************************************************************************)
\* a fresh analyzeDocument invocation
Pass(uri, text, parent, overlaps) ==
    [uri |-> uri, text |-> text, parent |-> parent, pc |-> "sync",
     i |-> 1, b |-> 1, resolved |-> << >>, decisions |-> << >>,
     overlaps |-> overlaps, published |-> FALSE]

ImportsOf(p) == getDocumentAST(p.text).imports

\* server.ts 191-202: the edges of the new pass, each with the resolution of
\* the first edge of the previous pass whose source has the same `value`
PreviousResolution(previousImports, stmt) ==
    LET hits == { k \in 1..Len(previousImports) : previousImports[k].value = stmt.value }
    IN  IF hits = {} THEN NoURI
        ELSE previousImports[CHOOSE k \in hits : \A j \in hits : k <= j].uri

CarryOver(previousImports, id, imports) ==
    [k \in 1..Len(imports) |->
        Edge(id, k, imports[k], PreviousResolution(previousImports, imports[k]))]

NeedsAnalysis_Always(contents, uri, docs) == contents # NoText

\* server.ts 248: is the imported document analyzed?
NeedsAnalysis(contents, uri, docs) ==
    contents # (IF uri = NoURI THEN NoText ELSE docs[uri])

IsResolvable_Never(stmt) == FALSE

\* symbols.ts 729: only a string literal source is looked up
IsResolvable(stmt) == stmt.literal

\* the URI whose read the pass is waiting for (symbols.ts 734)
Candidate(p) == joinPath(getURIs(p.uri)[p.b], ImportsOf(p)[p.i].value)

Children(ps, id) == { c \in 1..Len(ps) : ps[c].parent = id }

\* server.ts 266-273: a pass that awaits its children completes when they
\* have, and sends the diagnostics of its document
RECURSIVE Settle(_)
Settle(ps) ==
    LET ready == { id \in 1..Len(ps) :
                      ps[id].pc = "join" /\ \A c \in Children(ps, id) : ps[c].pc = "done" }
    IN  IF ready = {} THEN ps
        ELSE Settle([id \in 1..Len(ps) |->
                        IF id \in ready
                        THEN [ps[id] EXCEPT !.pc = "done", !.published = TRUE]
                        ELSE ps[id]])

\* evaluate the store once before it is handed to the next piece of code
Then(S, Op(_)) == CHOOSE r \in { Op(x) : x \in {S} } : TRUE

RECURSIVE BeginPass(_, _, _, _)
RECURSIVE Advance(_, _)
RECURSIVE SpawnLoop(_, _, _)

\* server.ts 244-260: store the resolved edges, then start the analysis of
\* every imported document whose content is not the cached one
Finish(S, id) ==
    LET p == S.passes[id]
        imports == ImportsOf(p)
        S1 == [S EXCEPT !.documentImports[p.uri] =
                   [k \in 1..Len(imports) |-> Edge(id, k, imports[k], p.resolved[k].uri)]]
        Spawn(X) == SpawnLoop(X, id, 1)
        Join(X) == [X EXCEPT !.passes[id].pc = "join"]
    IN  Then(Then(S1, Spawn), Join)

SpawnLoop(S, id, k) ==
    LET p == S.passes[id]
        r == p.resolved[k]
        go == NeedsAnalysis(r.contents, r.uri, S.documents)
        cached == IF r.uri = NoURI THEN NoText ELSE S.documents[r.uri]
        d == [uri |-> r.uri, contents |-> r.contents, cached |-> cached, started |-> go]
        S1 == [S EXCEPT !.passes[id].decisions = Append(@, d)]
        Begin(X) == IF go THEN BeginPass(X, r.uri, r.contents, id) ELSE X
        Rest(X) == SpawnLoop(X, id, k + 1)
    IN  IF k > Len(p.resolved) THEN S
        ELSE Then(Then(S1, Begin), Rest)

\* server.ts 236-242 with symbols.ts 724-741: resolve the imports in order up
\* to the next readFile request
Advance(S, id) ==
    LET p == S.passes[id]
        imports == ImportsOf(p)
        Go(X) == Advance(X, id)
    IN  IF p.i > Len(imports) THEN Finish(S, id)
        ELSE IF ~IsResolvable(imports[p.i])
             THEN Then([S EXCEPT !.passes[id].i = @ + 1,
                                 !.passes[id].resolved =
                                     Append(@, [uri |-> NoURI, contents |-> NoText])], Go)
             ELSE [S EXCEPT !.passes[id].pc = "read", !.passes[id].b = 1]

\* server.ts 164-202: the synchronous head of analyzeDocument
BeginPass(S, uri, text, parent) ==
    LET id == Len(S.passes) + 1
        ast == getDocumentAST(text)
        overlaps == { q \in 1..Len(S.passes) : S.passes[q].uri = uri /\ S.passes[q].pc = "read" }
        p == Pass(uri, text, parent, overlaps)
        S1 == [S EXCEPT !.documents[uri] = text]
        Go(X) == Advance(X, id)
    IN  IF ~ast.program
        THEN [S1 EXCEPT !.passes = Append(@, [p EXCEPT !.pc = "done"])]
        ELSE Then([S1 EXCEPT !.documentASTs[uri] = id,
                             !.documentSymbols[uri] = id,
                             !.documentTypedefs[uri] = id,
                             !.documentImports[uri] =
                                 CarryOver(S.documentImports[uri], id, ast.imports),
                             !.passes = Append(@, p)], Go)

\* readFile answered for the pass: symbols.ts 735-740
OnRead(S, id) ==
    LET p == S.passes[id]
        uri == Candidate(p)
        contents == files[uri]
        Go(X) == Advance(X, id)
    IN  IF contents # NoText
        THEN Then([S EXCEPT !.passes[id].i = @ + 1, !.passes[id].b = 1,
                            !.passes[id].resolved =
                                Append(@, [uri |-> uri, contents |-> contents])], Go)
        ELSE IF p.b < Len(getURIs(p.uri))
             THEN [S EXCEPT !.passes[id].b = @ + 1]
             ELSE Then([S EXCEPT !.passes[id].i = @ + 1, !.passes[id].b = 1,
                                 !.passes[id].resolved =
                                     Append(@, [uri |-> NoURI, contents |-> NoText])], Go)

Commit(S) ==
    /\ Len(S.passes) <= MaxAnalyses
    /\ documents' = S.documents
    /\ documentASTs' = S.documentASTs
    /\ documentSymbols' = S.documentSymbols
    /\ documentTypedefs' = S.documentTypedefs
    /\ documentImports' = S.documentImports
    /\ passes' = Settle(S.passes)

ServerInit ==
    /\ documents = [u \in URIs |-> NoText]
    /\ documentASTs = [u \in URIs |-> 0]
    /\ documentSymbols = [u \in URIs |-> 0]
    /\ documentTypedefs = [u \in URIs |-> 0]
    /\ documentImports = [u \in URIs |-> << >>]
    /\ passes = << >>
    /\ edits = 0

\* server.ts 287-292: handleDocument calls analyzeDocument for the document
handleDocument(uri, text) ==
    /\ edits' = edits + 1
    /\ \E S \in { BeginPass(X, uri, text, 0) : X \in {Store} } : Commit(S)
    /\ UNCHANGED << files, scopeVars, typeVars >>

\* server.ts 310-312: a change of an open document
DidChangeContent(uri, text) ==
    /\ edits < MaxEdits
    /\ handleDocument(uri, text)

\* server.ts 306-308: the document is opened; no further edit arrives
DidOpen(uri, text) ==
    /\ edits = 0
    /\ handleDocument(uri, text)

\* the client answers the readFile request of a waiting pass
ReadFile(id) ==
    /\ passes[id].pc = "read"
    /\ \E S \in { OnRead(X, id) : X \in {Store} } : Commit(S)
    /\ UNCHANGED << files, edits, scopeVars, typeVars >>

(***************************************************************************)
(* Lookups through the import edges (symbols.ts)                           *)
(***************************************************************************)
ImportKinds == {"Include", "Import", "FromImport", "Extends"}
\* the importTypes option of findSymbol: absent, or a list of statement types
Undefined == {"undefined"}
\* `{% import "b" as ns %}` and `{% from "b" import x %}`
NamespaceName == "ns"
FromImportNames == {"x"}

\* the text a stored AST or symbol table was built from (by pass id)
TextOf(ps, id) == getDocumentAST(ps[id].text)

\* symbols.ts 877-892 with inScopeOf undefined: the top-level definitions of
\* the imported document
ImportedDefinition(ps, symbolsId, name, type) ==
    \/ type = "Block" /\ name \in TextOf(ps, symbolsId).blocks
    \/ type = "Macro" /\ name \in TextOf(ps, symbolsId).macros

IsFiltered_Never(importTypes, edge) == FALSE

\* symbols.ts 914-919
IsFiltered(importTypes, edge) ==
    importTypes # Undefined /\ edge.type \notin importTypes

\* symbols.ts 921-938: is the edge followed? (isInScope: the statement is a
\* node of the stored AST and does not start after the use site)
IsFollowed(S, uri, use, importTypes, edge) ==
    /\ ~IsFiltered(importTypes, edge)
    /\ edge.pass = S.documentASTs[uri] /\ edge.idx <= use
    /\ edge.uri # NoURI
    /\ S.documents[edge.uri] # NoText
    /\ S.documentASTs[edge.uri] # 0

\* symbols.ts 940-992: does the edge bring a symbol of that name and type?
Brings(S, edge, name, type) ==
    IF edge.type = "Import" /\ type = "Variable" THEN name = NamespaceName
    ELSE IF edge.type = "FromImport"
         THEN name \in FromImportNames
              /\ ImportedDefinition(S.passes, S.documentSymbols[edge.uri], name, type)
         ELSE ImportedDefinition(S.passes, S.documentSymbols[edge.uri], name, type)

ImportedSymbol(name, type, uri, via) == [name |-> name, type |-> type, uri |-> uri, via |-> via]
NoImportedSymbol == ImportedSymbol("", "None", NoURI, Imp("None", FALSE, ""))

\* symbols.ts 895-996: the entry of the result map under the name; a later
\* edge that brings the name replaces the entry of an earlier one
getImportedSymbols(S, uri, use, name, type, importTypes) ==
    LET imports == S.documentImports[uri]
        hits == { k \in 1..Len(imports) :
                     /\ IsFollowed(S, uri, use, importTypes, imports[k])
                     /\ Brings(S, imports[k], name, type) }
    IN  IF S.documentASTs[uri] = 0 \/ hits = {} THEN NoImportedSymbol
        ELSE LET k == CHOOSE h \in hits : \A j \in hits : j <= h
             IN  ImportedSymbol(name, type, imports[k].uri,
                                Imp(imports[k].type, imports[k].literal, imports[k].value))

\* symbols.ts 998-1033 with checkCurrent false, from the block of the document
\* (definition.ts 229-255 for Block and Extends)
FindImported(uri, name, type, importTypes) ==
    /\ documentASTs[uri] # 0
    /\ TextOf(passes, documentASTs[uri]).blocks # {}
    /\ query' = [use |-> TextOf(passes, documentASTs[uri]).use, name |-> name, type |-> type,
                 uri |-> uri, importTypes |-> importTypes]
    /\ result' = getImportedSymbols(Store, uri, TextOf(passes, documentASTs[uri]).use,
                                    name, type, importTypes)
    /\ UNCHANGED << astProgram, serverVars, typeVars >>

\* symbols.ts 1012-1023 from a use site at the end of the document: the
\* definition of the document's own symbol table that is in scope there
CurrentDefinition(S, uri, name, type) ==
    /\ S.documentSymbols[uri] # 0
    /\ ImportedDefinition(S.passes, S.documentSymbols[uri], name, type)
LocalSymbol(name, type, uri) == ImportedSymbol(name, type, uri, Imp("None", FALSE, ""))

findSymbolAcross_ImportsFirst(S, uri, use, name, type, checkCurrent, importTypes) ==
    IF getImportedSymbols(S, uri, use, name, type, importTypes) # NoImportedSymbol
    THEN getImportedSymbols(S, uri, use, name, type, importTypes)
    ELSE IF checkCurrent /\ CurrentDefinition(S, uri, name, type)
         THEN LocalSymbol(name, type, uri)
         ELSE NoImportedSymbol

\* symbols.ts 998-1033: findSymbol over the document and its import edges
findSymbolAcross(S, uri, use, name, type, checkCurrent, importTypes) ==
    IF checkCurrent /\ CurrentDefinition(S, uri, name, type)
    THEN LocalSymbol(name, type, uri)
    ELSE getImportedSymbols(S, uri, use, name, type, importTypes)

\* findSymbol from a use site after every statement of the document
FindSymbol(uri, name, type, checkCurrent, importTypes) ==
    /\ documentASTs[uri] # 0
    /\ query' = [use |-> Len(TextOf(passes, documentASTs[uri]).imports), name |-> name,
                 type |-> type, uri |-> uri, importTypes |-> importTypes,
                 checkCurrent |-> checkCurrent]
    /\ result' = findSymbolAcross(Store, uri, Len(TextOf(passes, documentASTs[uri]).imports),
                                  name, type, checkCurrent, importTypes)
    /\ UNCHANGED << astProgram, serverVars, typeVars >>

\* symbols.ts 724-741, one call of findImport with the reads it awaits: the
\* call is in query, its progress in result (the readFile requests issued so
\* far, and what it returned)
Reading(b, reads) ==
    [pc |-> "reading", b |-> b, reads |-> reads, uri |-> NoURI, contents |-> NoText]
Returned(reads, uri, contents) ==
    [pc |-> "returned", b |-> 0, reads |-> reads, uri |-> uri, contents |-> contents]

\* the call up to its first await: no read for a source that is no literal
findImport(i, uri, configuration) ==
    /\ IF query = NoQuery THEN TRUE ELSE result.pc = "returned"
    /\ query' = [use |-> NoNode, name |-> i.value, type |-> "findImport", literal |-> i.literal,
                 uri |-> uri, configuration |-> configuration]
    /\ result' = IF ~IsResolvable(i) THEN Returned(<< >>, NoURI, NoText)
                 ELSE Reading(1, << joinPath(getURIsOf(configuration, uri)[1], i.value) >>)
    /\ UNCHANGED << astProgram, serverVars, typeVars >>

\* readFile answers: return on content, else go on to the next base location
AwaitReadFile ==
    /\ query # NoQuery /\ query.type = "findImport" /\ result.pc = "reading"
    /\ LET importURIs == getURIsOf(query.configuration, query.uri)
           candidate == joinPath(importURIs[result.b], query.name)
       IN  result' =
             IF files[candidate] # NoText
             THEN Returned(result.reads, candidate, files[candidate])
             ELSE IF result.b < Len(importURIs)
                  THEN Reading(result.b + 1,
                           Append(result.reads, joinPath(importURIs[result.b + 1], query.name)))
                  ELSE Returned(result.reads, NoURI, NoText)
    /\ UNCHANGED << query, astProgram, serverVars, typeVars >>

typedefSource_Own(S, typeName, documentUri) ==
    IF S.documentTypedefs[documentUri] # 0
       /\ typeName \in TextOf(S.passes, S.documentTypedefs[documentUri]).typedefs
    THEN documentUri ELSE NoURI

\* symbols.ts 122-142: the document whose registry answers the type name:
\* the document itself, else the first of its import edges whose document
\* declares the name
typedefSource(S, typeName, documentUri) ==
    LET Declares(uri) ==
            /\ S.documentTypedefs[uri] # 0
            /\ typeName \in TextOf(S.passes, S.documentTypedefs[uri]).typedefs
        imports == S.documentImports[documentUri]
        hits == { k \in 1..Len(imports) :
                     imports[k].uri # NoURI /\ Declares(imports[k].uri) }
    IN  IF Declares(documentUri) THEN documentUri
        ELSE IF hits = {} THEN NoURI
        ELSE imports[CHOOSE k \in hits : \A j \in hits : k <= j].uri

\* a documented type names a typedef (symbols.ts 122-142, for a name that is
\* no macro of the document)
ResolveTypeName(uri, typeName) ==
    /\ documents[uri] # NoText
    /\ query' = [use |-> NoNode, name |-> typeName, type |-> "Typedef", uri |-> uri]
    /\ result' = typedefSource(Store, typeName, uri)
    /\ UNCHANGED << astProgram, serverVars, typeVars >>

Init ==
    /\ ServerInit
    /\ ScopeIdle
    /\ TypeIdle
    /\ files \in Disks

Next ==
    \/ \E uri \in OpenURIs, text \in EditTexts : DidChangeContent(uri, text)
    \/ \E id \in 1..Len(passes) : ReadFile(id)

Spec == Init /\ [][Next]_vars

(***************************************************************************)
(* One top-level pass over a fixed file system, every read answered        *)
(***************************************************************************)
PassInit ==
    /\ ServerInit
    /\ ScopeIdle
    /\ TypeIdle
    /\ files \in PassDisks

PassNext ==
    \/ \E uri \in OpenURIs, text \in EditTexts : DidOpen(uri, text)
    \/ \E id \in 1..Len(passes) : ReadFile(id)

PassSpec == PassInit /\ [][PassNext]_vars /\ WF_vars(PassNext)

(***************************************************************************)
(* Lookups in one analyzed document                                        *)
(***************************************************************************)
ScopeInit ==
    /\ ServerInit
    /\ files = [u \in URIs |-> NoText]
    /\ ScopeIdle
    /\ TypeIdle

ScopeNext ==
    \/ \E st \in StatementsAt(Len(astProgram) + 1) : ParseStatement(st)
    \/ \E k \in 1..Len(astProgram), name \in Names \cup SpecialNames, type \in SymbolTypes :
           Lookup(k, name, type)

ScopeSpec == ScopeInit /\ [][ScopeNext]_vars

AllDone == \A id \in 1..Len(passes) : passes[id].pc = "done"

Program(id) == getDocumentAST(passes[id].text).program

LatestFor(id) == \A r \in 1..Len(passes) : passes[r].uri = passes[id].uri => r <= id

(***************************************************************************)
(* Typedef expansion of one documented document                            *)
(***************************************************************************)
ExpandInit ==
    /\ ServerInit
    /\ files = [u \in URIs |-> NoText]
    /\ ScopeIdle
    /\ TypeIdle

ExpandNext ==
    \/ \E props \in PropertyTypesAt(Len(typedefTable) + 1) : ParseTypedef(props)
    \/ formatJSDocLikeMarkdown(TypeNames[1])
    \/ getHover(TypeNames[1])
    \/ formatPropertyLine
    \/ formatPropertyLineForHover

ExpandSpec ==
    ExpandInit /\ [][ExpandNext]_vars
               /\ WF_vars(formatPropertyLine) /\ WF_vars(formatPropertyLineForHover)

(***************************************************************************)
(* Resolution of one type name in one documented document                  *)
(***************************************************************************)
ResolveInit ==
    /\ ServerInit
    /\ files = [u \in URIs |-> NoText]
    /\ ScopeIdle
    /\ ExpandIdle
    /\ ModuleIdle
    /\ macroDocs \in [MacroNames -> DocTypes \cup {NoMacro}]
    /\ callStack = << >>
    /\ resolvePc = "idle"

ParseTypedefComment ==
    /\ resolvePc = "idle"
    /\ ParseTypedef(<< "String" >>)

ResolveNext ==
    \/ ParseTypedefComment
    \/ \E typeName \in DocTypes : resolveTypeReference(typeName)
    \/ ResolveStep

ResolveSpec == ResolveInit /\ [][ResolveNext]_vars /\ WF_vars(ResolveStep)

(***************************************************************************)
(* Templates that extend, include and import one another                   *)
(***************************************************************************)
ImportDisks == { f \in [URIs -> {NoText, 1, 3, 10}] :
                    /\ f["d/a"] \in {NoText, 10}
                    /\ f["d/b"] \in {1, 3, 10}
                    /\ f["r/a"] = NoText
                    /\ f["r/b"] = NoText }

ImportInit ==
    /\ ServerInit
    /\ ScopeIdle
    /\ TypeIdle
    /\ files \in ImportDisks

ImportNext ==
    \/ \E text \in ImportTexts : DidChangeContent("d/a", text)
    \/ \E id \in 1..Len(passes) : ReadFile(id)
    \/ \E name \in {"x", NamespaceName}, type \in {"Block", "Variable"},
          importTypes \in {Undefined, {"Extends"}} :
          FindImported("d/a", name, type, importTypes)

ImportSpec == ImportInit /\ [][ImportNext]_vars

(***************************************************************************)
(* A module template and its fields.json                                   *)
(***************************************************************************)
\* the fields.json files: a text field, or a group `items` (single or
\* repeater) of a text field and possibly a group `sub`
FieldsJson ==
    LET TitleField == Field("title", "text", NoOccurrence, << >>)
        SubFields == { Field("sub", "group", occ, ch) :
                          occ \in {NoOccurrence, Occurrence(Max("number", 2))}, ch \in {<< >>, << TitleField >>} }
        ItemsFields == { Field("items", "group", occ, ch) :
                            occ \in Occurrences,
                            ch \in {<< TitleField >>} \cup { << TitleField, f >> : f \in SubFields } }
    IN  { << f >> : f \in ItemsFields } \cup { << TitleField >> }

LoopInit ==
    /\ ServerInit
    /\ files = [u \in URIs |-> NoText]
    /\ ScopeIdle
    /\ TypeIdle

LoopNext ==
    \/ \E fields \in FieldsJson : LoadFields(fields)
    \/ \E st \in LoopsAt(astProgram) : ParseLoop(st)
    \/ \E k \in 1..Len(astProgram), v \in LoopNames, p \in {"title", "sub"} :
          \/ TypeOf(k, << v >>)
          \/ TypeOf(k, << v, p >>)

LoopSpec == LoopInit /\ [][LoopNext]_vars

(***************************************************************************)
(* A documented macro                                                      *)
(***************************************************************************)
DocInit ==
    /\ ServerInit
    /\ files = [u \in URIs |-> NoText]
    /\ ScopeIdle
    /\ TypeIdle

DocNext ==
    \/ \E tag \in Tags : ParseTag(tag)
    \/ ArgumentType

DocSpec == DocInit /\ [][DocNext]_vars

(***************************************************************************)
(* Parsing a text of tags                                                  *)
(***************************************************************************)
ParseInit ==
    /\ ServerInit
    /\ files = [u \in URIs |-> NoText]
    /\ ScopeIdle
    /\ TypeIdle

ParseNext ==
    \/ \E token \in TagTokens : TypeTag(token)
    \/ \E tolerant \in BOOLEAN : Parse(tolerant)

ParseSpec == ParseInit /\ [][ParseNext]_vars

(***************************************************************************)
(* Parsing the tokens of one tag                                           *)
(***************************************************************************)
TagInit ==
    /\ ServerInit
    /\ files = [u \in URIs |-> NoText]
    /\ ScopeIdle
    /\ TypeIdle

TagNext ==
    \/ \E token \in TagNames \cup ArgumentTokens : TypeToken(token)
    \/ \E tolerant \in BOOLEAN : ParseTagText(tolerant)

TagSpec == TagInit /\ [][TagNext]_vars

(***************************************************************************)
(* Tokenizing a text                                                       *)
(***************************************************************************)
LexInit ==
    /\ ServerInit
    /\ files = [u \in URIs |-> NoText]
    /\ ScopeIdle
    /\ TypeIdle

LexNext ==
    \/ \E c \in Characters : TypeCharacter(c)
    \/ Tokenize

LexSpec == LexInit /\ [][LexNext]_vars

(***************************************************************************)
(* Lookups over a document and what its import edges bring                *)
(***************************************************************************)
\* templates that extend d/b, import it as a namespace, or extend themselves
FindTexts == {8, 12, 16}
FindDisks == { f \in [URIs -> {NoText, 1, 10, 16, 17}] :
                  /\ f["d/a"] \in {NoText, 16}
                  /\ f["d/b"] \in {1, 10, 17}
                  /\ f["r/a"] = NoText
                  /\ f["r/b"] = NoText }

FindInit ==
    /\ ServerInit
    /\ ScopeIdle
    /\ TypeIdle
    /\ files \in FindDisks

FindNext ==
    \/ \E text \in FindTexts : DidChangeContent("d/a", text)
    \/ \E id \in 1..Len(passes) : ReadFile(id)
    \/ \E name \in {"x"}, type \in {"Block", "Variable", "Macro"},
          checkCurrent \in BOOLEAN, importTypes \in {Undefined, {"Extends"}} :
          FindSymbol("d/a", name, type, checkCurrent, importTypes)

FindSpec == FindInit /\ [][FindNext]_vars

(***************************************************************************)
(* One findImport call over a configured list of base locations            *)
(***************************************************************************)
\* the files an import of "a" or "b" may name, present (text 1) or missing
LocateURIs == {"d/a", "d/b", "u/a", "u/b", "p/a", "p/b", "r/a", "r/b"}
Configurations == { Configuration(us, ps) : us \in {<< >>, << "u" >>}, ps \in {<< >>, << "p" >>} }

LocateInit ==
    /\ ServerInit
    /\ ScopeIdle
    /\ TypeIdle
    /\ files \in [LocateURIs -> {NoText, 1}]

LocateNext ==
    \/ \E literal \in BOOLEAN, value \in Paths, configuration \in Configurations :
          findImport(Imp("Include", literal, value), "d/a", configuration)
    \/ AwaitReadFile

LocateSpec == LocateInit /\ [][LocateNext]_vars

(***************************************************************************)
(* Typing the variables of a document of set statements                    *)
(***************************************************************************)
AssignInit ==
    /\ ServerInit
    /\ files = [u \in URIs |-> NoText]
    /\ ScopeIdle
    /\ TypeIdle

AssignNext ==
    \/ \E st \in SetStatements : ParseSetStatement(st)
    \/ \E k \in 1..Len(astProgram), item \in 1..2 : GetAssignedType(k, item)
    \/ AssignedTypeStep

AssignSpec == AssignInit /\ [][AssignNext]_vars

(***************************************************************************)
(* Listing the symbols in scope and looking one of them up                 *)
(***************************************************************************)
ListInit ==
    /\ ServerInit
    /\ files = [u \in URIs |-> NoText]
    /\ ScopeIdle
    /\ TypeIdle

ListNext ==
    \/ \E st \in StatementsAt(Len(astProgram) + 1) : ParseStatement(st)
    \/ \E k \in 1..Len(astProgram), name \in Names \cup SpecialNames, type \in SymbolTypes :
           ListAndFind(k, name, type)

ListSpec == ListInit /\ [][ListNext]_vars

(***************************************************************************)
(* The passes over a module template and its fields.json                   *)
(***************************************************************************)
Answers ==
    { Answer("fields", fields) : fields \in FieldsJson }
        \cup { Answer(kind, << >>) : kind \in {"missing", "invalid", "throws"} }

ModuleInit ==
    /\ ServerInit
    /\ files = [u \in URIs |-> NoText]
    /\ ScopeIdle
    /\ TypeIdle

ModuleNext ==
    \E program \in BOOLEAN, answer \in Answers : analyzeModule(program, answer)

ModuleSpec == ModuleInit /\ [][ModuleNext]_vars

(***************************************************************************)
(* Lookups in an imported document                                         *)
(***************************************************************************)
ExportInit ==
    /\ ServerInit
    /\ files = [u \in URIs |-> NoText]
    /\ ScopeIdle
    /\ TypeIdle

\* an answer depends on the document and the question only: one question is
\* followed until the document is parsed again
ExportNext ==
    \/ \E st \in StatementsAt(Len(astProgram) + 1) : ParseStatement(st)
    \/ \E name \in Names \cup SpecialNames, type \in SymbolTypes :
           query = NoQuery /\ LookupImported(name, type)

ExportSpec == ExportInit /\ [][ExportNext]_vars

(***************************************************************************)
(* Typedef registries of documents that include one another                *)
(***************************************************************************)
RegistryDisks == { f \in [URIs -> {NoText, 1, 3, 4, 15}] :
                      /\ f["d/a"] = NoText
                      /\ f["d/b"] \in {NoText, 3, 15}
                      /\ f["r/a"] \in {NoText, 15}
                      /\ f["r/b"] \in {NoText, 15} }

RegistryInit ==
    /\ ServerInit
    /\ ScopeIdle
    /\ TypeIdle
    /\ files \in RegistryDisks

RegistryNext ==
    \/ \E text \in TypedefTexts : DidChangeContent("d/a", text)
    \/ \E id \in 1..Len(passes) : ReadFile(id)
    \/ \E uri \in URIs : ResolveTypeName(uri, TypeNames[1])

RegistrySpec == RegistryInit /\ [][RegistryNext]_vars

(***************************************************************************)
(* Claims                                                                  *)
(***************************************************************************)

\* C1: when a pass q of a document started while an older pass p of the same
\* document was still waiting on a file read, then once both have finished
\* the AST, symbols, typedefs and import edges stored for the document all
\* come from q, and every stored import edge is a node of the stored AST.
C1_NewerPassSupersedes ==
    \A q \in 1..Len(passes) : \A p \in passes[q].overlaps :
        LET u == passes[q].uri IN
        (passes[p].pc = "done" /\ passes[q].pc = "done" /\ LatestFor(q) /\ Program(q))
            => /\ documentASTs[u] = q
               /\ documentSymbols[u] = q
               /\ documentTypedefs[u] = q
               /\ \A k \in 1..Len(documentImports[u]) :
                     documentImports[u][k].pass = documentASTs[u]

Looked == query # NoQuery

RECURSIVE Ancestors(_, _)
Ancestors(doc, node) ==
    IF parentOf(doc, node) = NoNode THEN {}
    ELSE {parentOf(doc, node)} \cup Ancestors(doc, parentOf(doc, node))

\* the scope boundaries around a node, and the innermost of them
Boundaries(doc, node) == { a \in Ancestors(doc, node) : definesScope(doc, a) }
Boundary(doc, node) ==
    CHOOSE a \in Boundaries(doc, node) : \A b \in Boundaries(doc, node) : getStart(b) <= getStart(a)

Macros(doc, name) == { k \in 1..Len(doc) : doc[k].kind = "Macro" /\ doc[k].name = name }

\* the boundary around the definition of a symbol: the macro for a macro
\* parameter, else the boundary around the defining statement
DefinitionScope(doc, sym) ==
    IF sym.identifierNode # NoNode /\ sym.identifierNode % 3 = 2
    THEN StatementNode(StatementOf(sym.identifierNode))
    ELSE Boundary(doc, StatementNode(StatementOf(sym.node)))

C3_DefinitionScopeEnclosesUse ==
    (Looked /\ result # NoSymbol) =>
        /\ DefinitionScope(astProgram, result) \in Boundaries(astProgram, query.use)
        /\ \A a \in Ancestors(astProgram, result.node) :
              nodeType(astProgram, a) = "Macro" => a \in Ancestors(astProgram, query.use)

\* a macro parameter was looked up and found from inside the macro
C3_Witness ==
    /\ Looked /\ result # NoSymbol
    /\ result.identifierNode # NoNode /\ result.identifierNode % 3 = 2
    /\ StatementNode(StatementOf(result.node)) \in Ancestors(astProgram, query.use)

VisibleOptions ==
    LET options == symbolOptions(astProgram, query.name)
    IN  { options[i] : i \in { j \in 1..Len(options) :
                                  /\ options[j].type = query.type
                                  /\ isInScope(astProgram, options[j].node, query.use) } }

\* the implicit binding the use site has for the name looked up, if any
SpecialAtUse ==
    IF query.type = "Variable" THEN specialSymbol(astProgram, query.name, query.use, 1)
    ELSE NoSymbol

\* C4: the lookup returns the definition that is latest in source order among
\* the visible definitions of the requested kind and name (where no implicit
\* binding of the use site takes the name).
C4_LatestVisibleDefinition ==
    (Looked /\ SpecialAtUse = NoSymbol) =>
        IF VisibleOptions = {} THEN result = NoSymbol
        ELSE /\ result \in VisibleOptions
             /\ \A sym \in VisibleOptions : getStart(sym.node) <= getStart(result.node)

\* two visible definitions shared the name
C4_Witness ==
    /\ Looked /\ result # NoSymbol
    /\ \E sym \in VisibleOptions : sym # result

\* the line a line is nested under (0: none)
ParentLine(i) ==
    IF \E j \in 1..(i - 1) : lines[j].indent < lines[i].indent
    THEN CHOOSE j \in 1..(i - 1) :
             /\ lines[j].indent < lines[i].indent
             /\ \A h \in (j + 1)..(i - 1) : lines[h].indent >= lines[i].indent
    ELSE 0

\* the type names expanded on the path down to a line
RECURSIVE PathTypes(_)
PathTypes(i) ==
    IF ParentLine(i) = 0 THEN (IF word = "" THEN {} ELSE {word})
    ELSE {lines[ParentLine(i)].type} \cup PathTypes(ParentLine(i))

NestedLines(i) == { j \in DOMAIN lines : ParentLine(j) = i }
IsExpanded(i) == NestedLines(i) # {}

\* C7: an expansion that was started, of a typedef that refers to itself or
\* of typedefs that refer to each other in a cycle as of any other, comes to
\* its end, in the documentation formatter and in the hover formatter; it
\* does so without reaching the limit on the number of lines.
C7_ExpansionTerminates ==
    /\ [](Len(lines) < MaxLines)
    /\ [](expandPc \in {"doc", "hover"} => <>(expandPc = "done"))

\* an expansion came to its end that met a typedef already on its path,
\* two levels down or deeper
C7_Witness ==
    /\ expandPc = "done"
    /\ \E i \in DOMAIN lines : lines[i].indent >= 2 /\ lines[i].type \in PathTypes(i)

\* C8: a line has nested lines only if its type name is not expanded further
\* up on its path and it is less than MAX_TYPEDEF_EXPANSION_DEPTH levels down;
\* no line is more than that many levels down; and once the expansion is done
\* every property of an expanded typedef has its line, expanded or not.
C8_ExpansionBounded ==
    /\ \A i \in DOMAIN lines :
          /\ lines[i].indent <= MAX_TYPEDEF_EXPANSION_DEPTH
          /\ IsExpanded(i) =>
                /\ lines[i].type \notin PathTypes(i)
                /\ lines[i].indent < MAX_TYPEDEF_EXPANSION_DEPTH
                /\ \A j \in NestedLines(i) : lines[j].indent = lines[i].indent + 1
    /\ expandPc = "done" =>
          \A i \in DOMAIN lines :
              IsExpanded(i) =>
                  Cardinality(NestedLines(i)) = Len(PropertiesOf(typedefTable, lines[i].type))

\* an expansion came to its end that left one typedef unexpanded because it
\* was on the path and another only because of the depth
C8_Witness ==
    /\ expandPc = "done"
    /\ \E i \in DOMAIN lines : lines[i].type \in PathTypes(i)
    /\ \E i \in DOMAIN lines :
          /\ lines[i].indent = MAX_TYPEDEF_EXPANSION_DEPTH
          /\ lines[i].type \notin PathTypes(i)
          /\ IsTypedef(typedefTable, lines[i].type)
          /\ Len(PropertiesOf(typedefTable, lines[i].type)) > 0

\* C9: resolving a type name never exhausts the call stack, whatever the
\* macros of the document name as their parameter types.
C9_ResolveNeverOverflows == resolvePc # "overflow"

\* C11: a lookup restricted to importTypes = ["Extends"] returns a symbol only
\* through an extends edge, and the symbol is of the document that edge leads
\* to; nothing is returned through an include, import or from-import edge.
C11_OnlyThroughExtends ==
    (/\ query # NoQuery /\ query.importTypes = {"Extends"}
     /\ result # NoImportedSymbol
     /\ result # LocalSymbol(query.name, query.type, query.uri))
        => result.via.type = "Extends"

\* a block was found through the extends edge of a document that also
\* includes the same template
C11_Witness ==
    /\ query # NoQuery /\ query.importTypes = {"Extends"} /\ query.type = "Block"
    /\ result # NoImportedSymbol
    /\ \E k \in 1..Len(documentImports[query.uri]) :
          /\ documentImports[query.uri][k].type = "Include"
          /\ documentImports[query.uri][k].uri = result.uri

\* C12: a Variable lookup of a name that is a special symbol of a kind of
\* node, from a use site inside a node of that kind, returns the special
\* symbol of the nearest such node, also when a user-defined variable of the
\* same name is visible at the use site.
C12_SpecialSymbolPreferred ==
    (Looked /\ query.type = "Variable") =>
        \A i \in 1..Len(SPECIAL_SYMBOLS) :
            LET kind == SPECIAL_SYMBOLS[i].definerType
                inside == { a \in Ancestors(astProgram, query.use) :
                               nodeType(astProgram, a) = kind }
            IN  (query.name \in SPECIAL_SYMBOLS[i].names /\ inside # {}) =>
                    /\ result.type = "Variable"
                    /\ result.node \in inside
                    /\ \A a \in inside : getStart(a) <= getStart(result.node)

\* a special symbol was returned although a variable of that name, set by
\* the user, is visible at the use site
C12_Witness ==
    /\ Looked /\ query.type = "Variable" /\ query.name \in SpecialNames
    /\ VisibleOptions # {}
    /\ result # NoSymbol /\ result \notin VisibleOptions
    /\ nodeType(astProgram, result.node) \in {"Macro", "Block"}

\* C13: after a pass of a document, the symbol table and the typedef
\* registry of the document stem from the text of that pass: the tables of
\* a document that has any are those of its latest pass.
C13_TablesOfLatestPass ==
    \A id \in 1..Len(passes) :
        LatestFor(id) =>
            /\ documentSymbols[passes[id].uri] \in {0, id}
            /\ documentTypedefs[passes[id].uri] \in {0, id}

\* C14 (as stated): no file read is issued for an import whose source is
\* the source of an import of the previous pass of the document: a pass
\* never waits for a read for an edge that carries a previous resolution.
C14_NoReadWhenCarried ==
    \A id \in 1..Len(passes) :
        LET p == passes[id]
            edges == documentImports[p.uri]
        IN  (p.pc = "read" /\ p.i <= Len(edges) /\ edges[p.i].pass = id)
                => edges[p.i].uri = NoURI

\* C14 (amended): every import is resolved once per pass, and the resolution
\* of an import with a string literal source is always the answer to a file
\* read issued by that pass for that import, whatever the previous pass had
\* resolved; the previous resolution is held only until the pass stores its
\* own.
C14_EveryLiteralImportIsRead ==
    [][\A id \in 1..Len(passes') :
          LET p == passes'[id]
              before == IF id <= Len(passes) THEN Len(passes[id].resolved) ELSE 0
          IN  /\ Len(p.resolved) <= Len(ImportsOf(p))
              /\ (p.pc \in {"join", "done"} /\ getDocumentAST(p.text).program) =>
                    Len(p.resolved) = Len(ImportsOf(p))
              /\ \A k \in (before + 1)..Len(p.resolved) :
                    ImportsOf(p)[k].literal =>
                        /\ id <= Len(passes)
                        /\ passes[id].pc = "read" /\ passes[id].i = k]_vars

\* a pass resolved a literal import by a read although the previous pass of
\* the document had resolved an import of the same source
C14_Witness ==
    \E id \in 1..Len(passes) : \E q \in 1..(id - 1) :
        /\ passes[q].uri = passes[id].uri
        /\ \A r \in (q + 1)..(id - 1) : passes[r].uri # passes[id].uri
        /\ Len(passes[id].resolved) >= 1 /\ Len(passes[q].resolved) >= 1
        /\ ImportsOf(passes[id])[1].literal
        /\ ImportsOf(passes[id])[1].value = ImportsOf(passes[q])[1].value
        /\ passes[q].resolved[1].uri # NoURI
        /\ passes[id].resolved[1].uri = passes[q].resolved[1].uri
        /\ passes[id].decisions = << >> /\ passes[id].pc = "read"

\* the unscoped blocks around the use site, and the variables of the name
\* looked up that are set before such a block in the scope that encloses it
UnscopedBlocks ==
    { b \in Ancestors(astProgram, query.use) :
         nodeType(astProgram, b) = "Block" /\ ~isScoped(astProgram, b) }
SetBefore(b) ==
    { k \in 1..Len(astProgram) :
         /\ astProgram[k].kind = "Set" /\ astProgram[k].name = query.name
         /\ getStart(StatementNode(k)) < getStart(b)
         /\ Boundary(astProgram, StatementNode(k)) = Boundary(astProgram, b) }

RECURSIVE ImportClosure(_, _)
ImportClosure(seen, n) ==
    LET next == seen \cup UNION { { documentImports[u][k].uri :
                                       k \in 1..Len(documentImports[u]) } : u \in seen }
    IN  IF n = 0 THEN seen ELSE ImportClosure((next \ {NoURI}) \cap URIs, n - 1)
DeclaredIn(uri, typeName) ==
    /\ documentTypedefs[uri] # 0
    /\ typeName \in TextOf(passes, documentTypedefs[uri]).typedefs
ResolvesTypeName == query' # query /\ query'.type = "Typedef"

\* C16 (as stated): a type name declared by @typedef in a document resolves
\* in every document that reaches the declaring document through import
\* edges, directly or transitively.
C16_TransitiveTypedefResolves ==
    [][ResolvesTypeName =>
          ((\E c \in ImportClosure({query'.uri}, Cardinality(URIs)) :
               DeclaredIn(c, query'.name)) => result' # NoURI)]_vars

\* C16 (amended): a type name declared by @typedef resolves in the declaring
\* document and in every document that has an import edge resolved to the
\* declaring document, and in no other document: a typedef of a document
\* that is only reached through the imports of an imported document does
\* not resolve.
C16_DirectTypedefResolves ==
    [][ResolvesTypeName =>
          LET direct == ImportClosure({query'.uri}, 1)
          IN  /\ (\E c \in direct : DeclaredIn(c, query'.name)) <=> result' # NoURI
              /\ result' # NoURI => (result' \in direct /\ DeclaredIn(result', query'.name))]_vars

\* a type name resolved in a document that imports the declaring document
C16_Witness ==
    /\ Looked /\ query.type = "Typedef"
    /\ result \in URIs /\ result # query.uri

\* the field a member expression names, read off fields.json: the field of
\* the module, or the child of the group a loop variable runs over
NoField == Field("", "", NoOccurrence, << >>)
\* the occurrence entry leaves the number of items open or allows several
Repeats(occurrence) ==
    occurrence.entry /\ (occurrence.max.kind \in {"null", "undefined"} \/ occurrence.max.value > 1)
FieldNamed(fields, name) ==
    LET named == { i \in 1..Len(fields) : fields[i].name = name }
    IN  IF named = {} THEN NoField
        ELSE fields[CHOOSE i \in named : \A j \in named : j <= i]
RECURSIVE FieldOf(_, _, _)
FieldOf(doc, expr, node) ==
    LET k == LoopOf(doc, expr[1], node)
        over == IF k = 0 THEN NoField ELSE FieldOf(doc, doc[k].iterable, ArgumentNode(k))
    IN  IF expr[1] = "module" /\ k = 0 THEN FieldNamed(documentFieldsJsonContent, expr[2])
        ELSE IF over.type = "group" /\ Repeats(over.occurrence)
             THEN FieldNamed(over.children, expr[2])
             ELSE NoField
AsksType == Looked /\ query.type = "Type"

PathBelow(tag, parameter) ==
    IF Len(tag.variable) > 1
    THEN (IF tag.variable[1] = parameter THEN Tail(tag.variable) ELSE << >>)
    ELSE IF tag.kind = "property" THEN tag.variable ELSE << >>
IsPrefix(p, q) == Len(p) <= Len(q) /\ SubSeq(q, 1, Len(p)) = p
\* the value under a path of property names (NoType: there is none)
RECURSIVE ValueAt(_, _)
ValueAt(type, path) ==
    IF path = << >> THEN type
    ELSE IF "properties" \in DOMAIN type /\ path[1] \in DOMAIN type.properties
         THEN ValueAt(type.properties[path[1]], Tail(path))
         ELSE NoType
\* the dotted @property tags of the parameter that no later @property tag
\* writes over or below
StandingTags ==
    LET properties == LET IsProperty(tag) == tag.kind = "property"
                      IN  SelectSeq(astProgram[1].documentation, IsProperty)
        Path(i) == PathBelow(properties[i], query.name)
    IN  { properties[i] : i \in { j \in 1..Len(properties) :
             /\ Len(properties[j].variable) > 1 /\ properties[j].variable[1] = query.name
             /\ \A l \in (j + 1)..Len(properties) :
                   Path(l) = << >> \/ (~IsPrefix(Path(l), Path(j)) /\ ~IsPrefix(Path(j), Path(l))) } }

\* C18: a macro parameter documented with `@property {Type} p.field` has an
\* object type named dict with a property field of the declared type, and with
\* a deeper path p.a.b every object on the way is a dict.
C18_PropertyBuildsObject ==
    (Looked /\ query.type = "Type" /\ astProgram # << >>) =>
        \A tag \in StandingTags :
            LET path == Tail(tag.variable) IN
            /\ result.name = "dict"
            /\ ValueAt(result, path) = TypeReference(normalizeDocType(tag.rawType))
            /\ \A n \in 1..(Len(path) - 1) : ValueAt(result, SubSeq(path, 1, n)).name = "dict"

\* a property two levels below a parameter that was documented as a string
C18_Witness ==
    /\ Looked /\ query.type = "Type" /\ astProgram # << >>
    /\ Tag("param", "string", << "data" >>) \in StandingTags \cup
           { astProgram[1].documentation[i] : i \in 1..Len(astProgram[1].documentation) }
    /\ Tag("property", "string", << "data", "a", "b" >>) \in StandingTags
    /\ ValueAt(result, << "a", "b" >>) = TypeReference("str")

\* a closer stands where no loop is open
RECURSIVE Count(_, _)
Count(tokens, token) ==
    IF tokens = << >> THEN 0
    ELSE (IF Head(tokens) = token THEN 1 ELSE 0) + Count(Tail(tokens), token)
StrayCloser ==
    \E n \in 1..Len(astProgram) :
        Count(SubSeq(astProgram, 1, n), "endfor") > Count(SubSeq(astProgram, 1, n), "for")

\* C19: parsing a text with a block closer that has no opener throws, in
\* tolerant mode as in strict mode: no program is returned.
C19_StrayCloserThrows ==
    (Looked /\ query.type = "Parse" /\ StrayCloser) => result = Thrown

\* a lone closer was parsed in tolerant mode
C19_Witness ==
    /\ Looked /\ query.type = "Parse" /\ query.tolerant
    /\ astProgram = << "endfor" >>
    /\ ~result.program

\* C20: every pass started for an opened document, and every pass it starts
\* for an imported document, eventually publishes diagnostics for its URI
\* when every read is answered.
C20_EveryPassPublishes ==
    <>(edits = 1 /\ \A id \in 1..Len(passes) : passes[id].published)

\* C6: an imported document is analyzed during import resolution only if the
\* content read for it differs from the text cached for its URI; when the
\* content equals the cached text no analysis of it is started.
C6_ReanalyzedOnlyIfContentDiffers ==
    /\ [](\A id \in 1..Len(passes) :
            /\ \A k \in 1..Len(passes[id].decisions) :
                  LET d == passes[id].decisions[k] IN d.contents = d.cached => ~d.started
            /\ passes[id].pc # "read" =>
                  Cardinality(Children(passes, id)) =
                      Cardinality({ k \in 1..Len(passes[id].decisions) :
                                       passes[id].decisions[k].started }))
    /\ [][\A id \in (Len(passes) + 1)..Len(passes') :
              passes'[id].parent # 0 => passes'[id].text # documents[passes'[id].uri]]_vars

\* an import whose content equals the cached text was skipped, another one was analyzed
C6_Witness ==
    /\ \E id \in 1..Len(passes) : \E k \in 1..Len(passes[id].decisions) :
          LET d == passes[id].decisions[k] IN
          d.uri # NoURI /\ d.contents = d.cached /\ ~d.started
    /\ \E id \in 1..Len(passes) : passes[id].parent # 0

\* C10: an import edge whose source is not a string literal never has a
\* resolved URI in documentImports.
C10_NonLiteralNeverResolved ==
    \A u \in URIs : \A k \in 1..Len(documentImports[u]) :
        ~documentImports[u][k].literal => documentImports[u][k].uri = NoURI

\* C5: a single top-level pass starts at most one recursive analysis per URI
\* and completes, whatever the include graph.
C5_PassTerminates ==
    /\ [](Len(passes) <= 1 + Cardinality(URIs))
    /\ <>(edits = 1 /\ AllDone)

\* the pass went round an include cycle: a recursive pass found the content of
\* one of its imports already cached, and everything completed
C5_Witness ==
    /\ edits = 1 /\ AllDone
    /\ \E c \in 1..Len(passes) :
          /\ passes[c].parent # 0
          /\ \E k \in 1..Len(passes[c].decisions) :
                LET d == passes[c].decisions[k] IN
                d.uri # NoURI /\ ~d.started /\ \E a \in 1..(c - 1) : passes[a].uri = d.uri

\* the positions of the tag's text where `key = value` is written, and
\* whether the arguments are nothing but values and `key = value` triples
KeyPositions == { i \in 2..(Len(astProgram) - 2) : astProgram[i + 1] = "=" }
WellFormedArguments ==
    /\ astProgram[Len(astProgram)] # "="
    /\ astProgram[2] # "="
    /\ \A i \in 2..(Len(astProgram) - 1) :
          astProgram[i + 1] = "=" =>
              /\ astProgram[i] \notin {"=", "'x'"}
              /\ astProgram[i - 1] # "="
              /\ astProgram[i + 2] # "="
KeywordArguments(args) ==
    { k \in 1..Len(args) : args[k].type = "KeywordArgumentExpression" }

\* C21: a tag whose name is no statement keyword, with arguments written as
\* values and `key = value` outside parentheses, parses in tolerant mode to
\* one TagStatement of that name with no parser error, whose keyword
\* arguments are, in order, the keys written in the tag.
C21_UnknownTagParsesToTagStatement ==
    (/\ Looked /\ query.type = "Tag" /\ query.tolerant
     /\ astProgram[1] \notin StatementKeywords
     /\ (Len(astProgram) >= 2 => WellFormedArguments))
    => /\ result.program /\ result.parserErrors = 0
       /\ Len(result.body) = 1
       /\ result.body[1].type = "TagStatement"
       /\ result.body[1].tagName = astProgram[1]
       /\ LET args == result.body[1].args IN
          /\ Cardinality(KeywordArguments(args)) = Cardinality(KeyPositions)
          /\ \A i \in KeyPositions :
                \E k \in KeywordArguments(args) :
                   /\ args[k].key = astProgram[i]
                   /\ args[k].value = astProgram[i + 2]
                   /\ Cardinality({ j \in KeywordArguments(args) : j < k })
                        = Cardinality({ j \in KeyPositions : j < i })

\* `module path='x' label='x'` was parsed in tolerant mode: two keyword arguments
C21_Witness ==
    /\ Looked /\ query.type = "Tag" /\ query.tolerant
    /\ astProgram = << "module", "path", "=", "'x'", "label", "=", "'x'" >>
    /\ result.program
    /\ Len(result.body[1].args) = 2

\* the text was tokenized without a lexer error
Tokenized == Looked /\ query.type = "Tokenize" /\ result.lexerErrors = 0
\* the offsets of the text that lie in a token
Covered(tokens) ==
    { o \in 0..(Len(astProgram) - 1) :
        \E k \in 1..Len(tokens) : tokens[k].start <= o /\ o < tokens[k].end }

\* C22: for every text that tokenizes without error the token ranges are
\* pairwise non-overlapping and contiguous: each token starts where the one
\* before it ends, the first at offset 0 and the last ending at the length
\* of the text.
C22_TokensContiguous ==
    Tokenized =>
        LET tokens == result.tokens IN
        /\ \A k \in 1..(Len(tokens) - 1) : tokens[k].end = tokens[k + 1].start
        /\ Covered(tokens) = 0..(Len(astProgram) - 1)

\* C22, corrected: the token ranges are non-empty, in source order and
\* pairwise non-overlapping, so that every offset lies in at most one token,
\* and an offset in no token is a blank.
C22_TokensDisjointInOrder ==
    Tokenized =>
        LET tokens == result.tokens IN
        /\ \A k \in 1..Len(tokens) :
              0 <= tokens[k].start /\ tokens[k].start < tokens[k].end
              /\ tokens[k].end <= Len(astProgram)
        /\ \A k \in 1..(Len(tokens) - 1) : tokens[k].end <= tokens[k + 1].start
        /\ \A o \in (0..(Len(astProgram) - 1)) \ Covered(tokens) :
              astProgram[o + 1] = " "

\* `{ a}` was tokenized: the blank after the delimiter lies in no token
C22_Witness ==
    /\ Tokenized
    /\ astProgram = << "{", " ", "a", "}" >>
    /\ Len(result.tokens) = 3
    /\ Covered(result.tokens) = {0, 2, 3}

\* findSymbol was called with the checkCurrent option given
Found == Looked /\ "checkCurrent" \in DOMAIN query

\* C23: with checkCurrent set, findSymbol returns the definition visible in
\* the current document when there is one, and what the import edges bring
\* otherwise; with checkCurrent unset or false the symbol it returns is never
\* one of the current document's own symbol table.
C23_CurrentFirstElseNeverCurrent ==
    [][\A name \in {"x"}, type \in {"Block", "Variable", "Macro"},
          checkCurrent \in BOOLEAN, importTypes \in {Undefined, {"Extends"}} :
          FindSymbol("d/a", name, type, checkCurrent, importTypes) =>
              /\ (checkCurrent /\ CurrentDefinition(Store, "d/a", name, type))
                    => result' = LocalSymbol(name, type, "d/a")
              /\ (checkCurrent /\ ~CurrentDefinition(Store, "d/a", name, type))
                    => result' = getImportedSymbols(Store, "d/a", query'.use, name, type,
                                                    importTypes)
              /\ ~checkCurrent => result'.uri # "d/a"]_vars

\* C23, corrected: with checkCurrent set, findSymbol returns the definition
\* visible in the current document when there is one; in every other case it
\* returns what the import edges of the document bring under the name, which
\* is a symbol of the document an edge resolves to (the current document
\* itself when it imports itself).
C23_CurrentFirstElseImported ==
    [][\A name \in {"x"}, type \in {"Block", "Variable", "Macro"},
          checkCurrent \in BOOLEAN, importTypes \in {Undefined, {"Extends"}} :
          FindSymbol("d/a", name, type, checkCurrent, importTypes) =>
              /\ (checkCurrent /\ CurrentDefinition(Store, "d/a", name, type))
                    => result' = LocalSymbol(name, type, "d/a")
              /\ ~(checkCurrent /\ CurrentDefinition(Store, "d/a", name, type))
                    => /\ result'.via.type = "None" => result' = NoImportedSymbol
                       /\ result' # NoImportedSymbol =>
                             \E k \in 1..Len(documentImports["d/a"]) :
                                /\ documentImports["d/a"][k].uri = result'.uri
                                /\ documentImports["d/a"][k].type = result'.via.type
                                /\ Brings(Store, documentImports["d/a"][k], name, type)]_vars

\* the document's own block was returned although an import edge of the
\* document brings a block of the same name
C23_Witness ==
    /\ Found /\ query.checkCurrent /\ query.type = "Block"
    /\ result = LocalSymbol(query.name, "Block", query.uri)
    /\ getImportedSymbols(Store, query.uri, query.use, query.name, "Block", Undefined)
          # NoImportedSymbol

\* the candidate files of the findImport call in the order the claim gives:
\* the importing document's directory, the configured importURIs, the
\* configured importPaths, the workspace roots
RECURSIVE Flatten(_)
Flatten(seqs) == IF seqs = << >> THEN << >> ELSE Head(seqs) \o Flatten(Tail(seqs))
CandidatesInOrder ==
    LET bases == Flatten(<< << "d" >>, query.configuration.importURIs,
                            query.configuration.importPaths, << "r" >> >>)
    IN  [k \in 1..Len(bases) |-> joinPath(bases[k], query.name)]
Hits == { k \in 1..Len(CandidatesInOrder) : files[CandidatesInOrder[k]] # NoText }
Locating == Looked /\ query.type = "findImport"

\* C24: findImport reads the candidates in the order directory of the
\* importing document, importURIs, importPaths, workspace roots; it returns
\* the first candidate whose read yields content and has issued no read
\* beyond it; it returns nothing, having read every candidate, when all are
\* missing.
C24_FirstHitInOrder ==
    (Locating /\ query.literal) =>
        LET first == IF Hits = {} THEN Len(CandidatesInOrder)
                     ELSE CHOOSE k \in Hits : \A j \in Hits : k <= j
        IN  /\ Len(result.reads) <= first
            /\ result.reads = SubSeq(CandidatesInOrder, 1, Len(result.reads))
            /\ result.pc = "returned" =>
                  /\ result.reads = SubSeq(CandidatesInOrder, 1, first)
                  /\ IF Hits = {} THEN result.uri = NoURI /\ result.contents = NoText
                     ELSE /\ result.uri = CandidatesInOrder[first]
                          /\ result.contents = files[result.uri]

\* a call returned the file under the configured import path after the
\* directory and the import URI were read and missing, the root file being
\* present and unread
C24_Witness ==
    /\ Locating /\ result.pc = "returned"
    /\ query.configuration = Configuration(<< "u" >>, << "p" >>)
    /\ result.reads = << "d/a", "u/a", "p/a" >>
    /\ result.uri = "p/a"
    /\ files["r/a"] # NoText

\* the type of a variable is asked whose set statement assigns it the
\* identifier of its own name
AsksSelfAssigned ==
    /\ Looked /\ query.type = "getType"
    /\ astProgram[query.use].value = query.name

\* C25: inferring the type of a variable that a set statement assigns the
\* identifier of the same name (as an assignee or as an item of a tuple
\* assignee) never exhausts the call stack, makes no nested call for the
\* right-hand side, and yields no type.
C25_SelfAssignmentYieldsNoType ==
    AsksSelfAssigned =>
        /\ resolvePc # "overflow"
        /\ Len(callStack) <= 1
        /\ resolvePc = "resolved" => result = NoType

\* `{% set x, y = y %}`: the type of y was asked and is undefined
C25_Witness ==
    /\ AsksSelfAssigned /\ resolvePc = "resolved"
    /\ astProgram[query.use] = SetStatement(<< "x", "y" >>, "y")
    /\ query.name = "y"
    /\ result = NoType

\* the type is a list of dicts of the field's children, or one such dict
ChildNames(field) == { field.children[i].name : i \in 1..Len(field.children) }
GroupTyped(field, type) ==
    IF Repeats(field.occurrence)
    THEN /\ type.name = "list"
         /\ type.elementType.name = "dict"
         /\ DOMAIN type.elementType.properties = ChildNames(field)
    ELSE /\ type.name = "dict"
         /\ DOMAIN type.properties = ChildNames(field)
ChildTypes(type) == IF type.name = "list" THEN type.elementType.properties ELSE type.properties

\* C26: a group field of fields.json is typed as a list whose element type is
\* a dict of its children when it has an occurrence entry whose max is
\* absent, null or greater than 1, and as a dict of its children when it has
\* no occurrence entry or a max of at most 1; so are the groups among its
\* children.
C26_GroupTypedByOccurrence ==
    \A i \in 1..Len(documentFieldsJsonContent) :
        LET field == documentFieldsJsonContent[i]
            type == documentModuleFields.properties[field.name]
        IN  field.type = "group" =>
                /\ GroupTyped(field, type)
                /\ \A j \in 1..Len(field.children) :
                      field.children[j].type = "group" =>
                          GroupTyped(field.children[j],
                                     ChildTypes(type)[field.children[j].name])

\* fields.json with a group whose occurrence entry gives no max was loaded:
\* module.items is a list
C26_Witness ==
    /\ documentFieldsJsonContent # << >>
    /\ documentFieldsJsonContent[1].type = "group"
    /\ documentFieldsJsonContent[1].occurrence = Occurrence(Max("undefined", 0))
    /\ documentModuleFields.properties["items"].name = "list"

\* C27: the macros of a document imported with `{% import "f" as ns %}` are
\* reachable only through the namespace: a Macro lookup by the bare name of a
\* macro returns nothing that an import-as edge brings.
C27_MacrosOnlyThroughNamespace ==
    (Found /\ query.type = "Macro") => result.via.type # "Import"

\* C28: the symbol that findSymbolsInScope lists under a name at a use site
\* is the symbol that findSymbol returns for the name, the kind and the use
\* site: the same definition when several share the name.
C28_ListedIsFound ==
    Looked => result.listed = result.found

\* C29: after every pass over a module template the three maps have no entry
\* for the document, or all three hold what was derived from the fields.json
\* read in that pass; after a pass in which fields.json was missing,
\* unreadable or no field list, none of the three has an entry.
C29_FieldMapsOfThisPass ==
    (Looked /\ query.type = "analyzeDocument") =>
        IF query.program /\ query.answer.kind = "fields"
        THEN /\ documentFieldsJsonContent = query.answer.fields
             /\ documentModuleFields = fieldsToModuleTypeInfo(query.answer.fields)
             /\ documentFieldsJsonMap = fieldsJsonUri
        ELSE /\ documentFieldsJsonContent = << >>
             /\ documentModuleFields = NoType
             /\ documentFieldsJsonMap = NoURI

\* C30: a symbol obtained through an import edge is defined at the Program
\* scope of the imported document: no macro lies around its definition, so a
\* macro parameter or a variable set in a macro body is never returned.
C30_ImportedFromProgramScope ==
    (Looked /\ result # NoSymbol) =>
        /\ DefinitionScope(astProgram, result) = 0
        /\ \A a \in Ancestors(astProgram, result.node) : nodeType(astProgram, a) # "Macro"

\* the imported document sets the name at its top level and again in a macro
\* body: the lookup returned the top-level definition
C30_Witness ==
    /\ Looked /\ query.type = "Variable" /\ result # NoSymbol
    /\ astProgram[StatementOf(result.node)].parent = 0
    /\ \E k \in 1..Len(astProgram) :
          /\ astProgram[k].kind = "Set" /\ astProgram[k].name = query.name
          /\ astProgram[k].parent # 0
          /\ astProgram[astProgram[k].parent].kind = "Macro"
          /\ k > StatementOf(result.node)

====
